---- MODULE Spec2Model ----
(***************************************************************************)
(* Field-level PII encryption envelope of the HR backend                   *)
(* (backend/app/services/encryption_service.py), and the handlers and the  *)
(* audit service that call it (backend/app/routes, audit_service.py).      *)
(*                                                                         *)
(* Python values are records tagged by type.  A Python str is a sequence   *)
(* of items: an item is one character, a run of n >= 2 equal characters,   *)
(* or one ciphertext blob (the base64 text of a Fernet token, kept         *)
(* symbolic: key, iv, plaintext, and whether its bytes are still the ones  *)
(* the cipher produced).  Lengths, the base64 shape and base64 decoding    *)
(* are computed over that text.                                            *)
(* Cryptographic assumption: no text other than a blob authenticates.      *)
(***************************************************************************)
EXTENDS Integers, Sequences, FiniteSets, TLC

\* key:    the key the process was constructed with
\* op:     the operation called last; arg: its argument
\* res:    what it returned; exc: what it raised ("none" if it returned)
\* cipher: how many times it invoked the Fernet cipher
\* inner:  how many times it called encrypt()/decrypt()
\* caller: the object passed as argument, as the caller sees it afterwards
\* env:    what the operation found outside the process: the iv drawn, the
\*         rows the store handed back, whether the stores answered
\* employees, change_information, audit_logs, form_submissions, form_tokens:
\*         what the operation wrote to that table and the table stored
\* logged: what its call of AuditService.log_action returned (None: no call)
\* environ: the value of ENCRYPTION_KEY in the environment of the process
\* _encryption_service: the module-level singleton (None: not constructed)
\* phase:  where the process is: "loaded", then "serving" after startup_event
\* getenv_calls, constructions: how many times the key was read from the
\*         environment, how many EncryptionService objects were built
\* requests: how many request handlers have run
\* earlier: the call of hash before the last one, [arg, res]
\* token_row: the form_tokens row of the form link
\* submitters: for each submit_form request, where its handler is and the
\*         token_record it read
\* accepted: the submissions stored in form_submissions
\* failed_login_attempts: the dict of account_lockout, by e-mail
\* now:    the clock, in minutes
\* fifth:  when the lock was set by a fifth failure (-1: never)
VARIABLES key, op, arg, res, exc, cipher, inner, caller, env, logged,
          employees, change_information, audit_logs, form_submissions,
          form_tokens,
          environ, _encryption_service, phase, getenv_calls, constructions,
          requests, earlier,
          token_row, submitters, accepted,
          failed_login_attempts, now, fifth

\* the process around the envelope
lifecycle == <<environ, _encryption_service, phase, getenv_calls,
               constructions, requests, earlier>>

\* the concurrent submit_form requests
submitting == <<token_row, submitters, accepted>>
\* the concurrent login requests
signing_in == <<failed_login_attempts, now, fifth>>

vars == <<key, op, arg, res, exc, cipher, inner, caller, env, logged,
          employees, change_information, audit_logs, form_submissions,
          form_tokens, lifecycle, submitting, signing_in>>

(* ------------------------------ bounds --------------------------------- *)
\* longest run of free characters after the fixed prefix of a literal
MaxTail == 1
\* distinct random ivs the cipher may draw
MaxIv == 2
\* layers of encryption inside one value
MaxDepth == 2

(* -------------------------- program constants -------------------------- *)
\* decrypt: len(ciphertext) < 20
MinCipherLen == 20
\* _looks_like_base64: len(s) > 40
Base64MinLen == 40

(* ------------------------------ values --------------------------------- *)
PyNone == [t |-> "none"]
PyStr(s) == [t |-> "str", s |-> s]
PyInt(n) == [t |-> "int", n |-> n]
PyBool(b) == [t |-> "bool", b |-> b]
\* a float with one decimal digit, as a count of tenths
PyFloat(tenths) == [t |-> "float", tenths |-> tenths]
PyList(items) == [t |-> "list", items |-> items]
PyDict(d) == [t |-> "dict", d |-> d]

Ch(c) == [k |-> "ch", c |-> c]
\* c repeated n times, n >= 2; only the long prefix of a literal is a run
Run(c, n) == [k |-> "run", c |-> c, n |-> n]
Tok(k, iv, pt, good) == [k |-> "tok", key |-> k, iv |-> iv, pt |-> pt, good |-> good]

\* the str of a character string given as a sequence of characters
Lit(cs) == PyStr([i \in 1..Len(cs) |-> Ch(cs[i])])
Rep(c, n) == [i \in 1..n |-> c]

Keys == {1, 2}

\* a lone surrogate code point: str.encode('utf-8') raises on it
Surrogate == Ch("U+D800")
\* text.encode('utf-8') returns
Encodable(s) == \A i \in 1..Len(s) : s[i] # Surrogate

Digits == <<"0", "1", "2", "3", "4", "5", "6", "7", "8", "9">>
\* the characters of [A-Za-z0-9+/]
B64Alphabet ==
  {"A", "B", "C", "D", "E", "F", "G", "H", "I", "J", "K", "L", "M", "N", "O",
   "P", "Q", "R", "S", "T", "U", "V", "W", "X", "Y", "Z",
   "a", "b", "c", "d", "e", "f", "g", "h", "i", "j", "k", "l", "m", "n", "o",
   "p", "q", "r", "s", "t", "u", "v", "w", "x", "y", "z",
   "0", "1", "2", "3", "4", "5", "6", "7", "8", "9", "+", "/"}

(* ------------------------- Python built-ins ---------------------------- *)
RECURSIVE DigitsOf(_)
DigitsOf(n) == IF n < 10 THEN <<Ch(Digits[n + 1])>>
               ELSE DigitsOf(n \div 10) \o <<Ch(Digits[(n % 10) + 1])>>

Abs(n) == IF n < 0 THEN -n ELSE n
Sign(n) == IF n < 0 THEN <<Ch("-")>> ELSE <<>>

Chars(cs) == [i \in 1..Len(cs) |-> Ch(cs[i])]

\* repr(s) of a str: in single quotes, or in double quotes if s has single
\* quotes and no double quote
ReprStr(s) ==
  LET has(c) == \E i \in 1..Len(s) : s[i] = Ch(c)
      q == IF has("'") /\ ~has("\"") THEN Ch("\"") ELSE Ch("'")
      esc(it) == CASE it = Ch("\\") -> <<Ch("\\"), Ch("\\")>>
                   [] it = Ch("\n") -> <<Ch("\\"), Ch("n")>>
                   [] it = Surrogate ->
                        Chars(<<"\\", "u", "d", "8", "0", "0">>)
                   [] it = q -> <<Ch("\\"), q>>
                   [] OTHER -> <<it>>
      RECURSIVE body(_)
      body(t) == IF t = <<>> THEN <<>> ELSE esc(Head(t)) \o body(Tail(t))
  IN <<q>> \o body(s) \o <<q>>

RECURSIVE py_str(_), py_repr(_), ReprItems(_), ReprMembers(_)

\* repr(v)
py_repr(v) ==
  CASE v.t = "str" -> ReprStr(v.s)
    [] v.t = "list" -> <<Ch("[")>> \o ReprItems(v.items) \o <<Ch("]")>>
    [] v.t = "dict" -> <<Ch("{")>> \o ReprMembers(v.d) \o <<Ch("}")>>
    [] OTHER -> py_str(v)

ReprItems(items) ==
  IF items = <<>> THEN <<>>
  ELSE py_repr(Head(items))
       \o (IF Tail(items) = <<>> THEN <<>>
           ELSE <<Ch(","), Ch(" ")>> \o ReprItems(Tail(items)))

\* 'key': value, ... in dict order
ReprMembers(d) ==
  IF DOMAIN d = {} THEN <<>>
  ELSE LET k == CHOOSE x \in DOMAIN d : TRUE
           rest == [x \in DOMAIN d \ {k} |-> d[x]]
       IN ReprStr(k) \o <<Ch(":"), Ch(" ")>> \o py_repr(d[k])
          \o (IF DOMAIN rest = {} THEN <<>>
              ELSE <<Ch(","), Ch(" ")>> \o ReprMembers(rest))

\* str(v), as a sequence of items
py_str(v) ==
  CASE v.t \in {"list", "dict"} -> py_repr(v)
    [] v.t = "str" -> v.s
    [] v.t = "int" -> Sign(v.n) \o DigitsOf(Abs(v.n))
    [] v.t = "float" -> Sign(v.tenths) \o DigitsOf(Abs(v.tenths) \div 10)
                          \o <<Ch(".")>> \o DigitsOf(Abs(v.tenths) % 10)
    [] v.t = "bool" -> IF v.b THEN Chars(<<"T", "r", "u", "e">>)
                       ELSE Chars(<<"F", "a", "l", "s", "e">>)
    [] v.t = "none" -> Chars(<<"N", "o", "n", "e">>)

\* bool(v)
Truthy(v) ==
  CASE v.t = "none" -> FALSE
    [] v.t = "str" -> v.s # <<>>
    [] v.t = "int" -> v.n # 0
    [] v.t = "float" -> v.tenths # 0
    [] v.t = "bool" -> v.b
    [] v.t = "list" -> v.items # <<>>
    [] v.t = "dict" -> DOMAIN v.d # {}

(* ----------------------- text of a cipher blob ------------------------- *)
B64Len(n) == 4 * ((n + 2) \div 3)
B64Pad(n) == (3 - (n % 3)) % 3

RECURSIVE StrLen(_)
\* Fernet token: version, timestamp, iv, AES-CBC blocks with PKCS7, HMAC
FernetBytes(pt) == 1 + 8 + 16 + 16 * ((StrLen(pt) \div 16) + 1) + 32
\* the token is urlsafe-base64 text; encrypt() base64-encodes it again
TokLen(it) == B64Len(B64Len(FernetBytes(it.pt)))
TokPad(it) == B64Pad(B64Len(FernetBytes(it.pt)))
ItemLen(it) == CASE it.k = "tok" -> TokLen(it)
                 [] it.k = "run" -> it.n
                 [] it.k = "ch" -> 1
\* len(s), summed by halves
StrLen(s) ==
  IF s = <<>> THEN 0
  ELSE IF Len(s) = 1 THEN ItemLen(s[1])
  ELSE StrLen(SubSeq(s, 1, Len(s) \div 2))
       + StrLen(SubSeq(s, Len(s) \div 2 + 1, Len(s)))

RECURSIVE Depth(_)
\* layers of encryption inside a str
Depth(s) == IF s = <<>> THEN 0
            ELSE LET h == Head(s)
                     d == IF h.k = "tok" THEN 1 + Depth(h.pt) ELSE 0
                     r == Depth(Tail(s))
                 IN IF d > r THEN d ELSE r

(* ------------------- re.match(r'^[A-Za-z0-9+/]+=*$', s) ---------------- *)
IsB64Run(it) == \/ it.k \in {"ch", "run"} /\ it.c \in B64Alphabet
                \/ it.k = "tok" /\ TokPad(it) = 0
IsPadded(it) == it.k = "tok" /\ TokPad(it) > 0
IsEq(it) == it.k = "ch" /\ it.c = "="

RECURSIVE LeadingRun(_)
\* number of leading items that lie wholly in [A-Za-z0-9+/]
LeadingRun(s) == IF s # <<>> /\ IsB64Run(Head(s)) THEN 1 + LeadingRun(Tail(s))
                 ELSE 0

\* s is  [A-Za-z0-9+/]+ =*  from its first to its last character
FullMatch(s) ==
  LET n == LeadingRun(s)
      \* a padded blob ends the run of alphabet characters with its own '='
      m == IF n < Len(s) /\ IsPadded(s[n + 1]) THEN n + 1 ELSE n
  IN /\ m >= 1
     /\ \A i \in (m + 1)..Len(s) : IsEq(s[i])

\* re.match with '$': the end of the string, or just before a final newline
RegexMatch(s) ==
  \/ FullMatch(s)
  \/ /\ s # <<>>
     /\ s[Len(s)] = Ch("\n")
     /\ FullMatch(SubSeq(s, 1, Len(s) - 1))

looks_like_base64(s) == RegexMatch(s) /\ StrLen(s) > Base64MinLen

(* --------------- base64.b64decode(ciphertext.encode('utf-8')) ---------- *)
\* what the decoded bytes are: nothing, exactly one token, or anything else
NoBytes == [kind |-> "empty"]
TokBytes(it) == [kind |-> "tok", tok |-> it]
OtherBytes == [kind |-> "other"]

RECURSIVE B64Walk(_, _, _, _)
\* the non-strict decoder: quad is the position in the current group of four
\* data characters, pads the '=' seen since the last data character
B64Walk(s, quad, pads, body) ==
  IF s = <<>> THEN [ok |-> quad = 0, body |-> body]
  ELSE LET it == Head(s) IN
    CASE it.k = "tok" ->
           \* its data characters, then its own padding
           B64Walk(Rep(Ch("="), TokPad(it)) \o Tail(s),
                   (quad + TokLen(it) - TokPad(it)) % 4, 0,
                   IF quad = 0 /\ body = NoBytes THEN TokBytes(it) ELSE OtherBytes)
      [] it.k = "ch" /\ it.c = "=" ->
           IF quad >= 2 /\ quad + pads + 1 >= 4
           THEN [ok |-> TRUE, body |-> body]
           ELSE B64Walk(Tail(s), quad, IF quad >= 2 THEN pads + 1 ELSE pads, body)
      [] it.k \in {"ch", "run"} /\ it.c \in B64Alphabet ->
           B64Walk(Tail(s), (quad + ItemLen(it)) % 4, 0, OtherBytes)
      [] OTHER -> B64Walk(Tail(s), quad, pads, body)

b64decode(s) == B64Walk(s, 0, 0, NoBytes)

(* --------------------------- the Fernet cipher ------------------------- *)
\* Fernet(key).encrypt(plaintext.encode('utf-8')), base64-encoded again
cipher_encrypt(k, iv, pt) == Tok(k, iv, pt, TRUE)

\* Fernet(key).decrypt(bytes): the plaintext, or InvalidToken
cipher_decrypt(k, body) ==
  IF body.kind = "tok" /\ body.tok.good /\ body.tok.key = k
  THEN [ok |-> TRUE, pt |-> body.tok.pt]
  ELSE [ok |-> FALSE, pt |-> <<>>]

(* ------------------------------ envelope ------------------------------- *)
Ret(v, n) == [ret |-> v, exc |-> "none", cipher |-> n, inner |-> 0]
Raise(e, n, m) == [ret |-> PyNone, exc |-> e, cipher |-> n, inner |-> m]
\* the result of an operation that made one call r of encrypt/decrypt
Via(r) == [r EXCEPT !.inner = 1]

\* encrypt without the str() conversion: encode() of a non-string raises
encrypt_unstringified(k, iv, plaintext) ==
  IF plaintext = PyNone \/ plaintext = PyStr(<<>>) THEN Ret(PyNone, 0)
  ELSE IF plaintext.t # "str" THEN Raise("ValueError", 0, 0)
  ELSE Ret(PyStr(<<cipher_encrypt(k, iv, plaintext.s)>>), 1)

\* encrypt that tests only for None
encrypt_none_only(k, iv, plaintext) ==
  IF plaintext = PyNone THEN Ret(PyNone, 0)
  ELSE LET text == IF plaintext.t # "str" THEN py_str(plaintext) ELSE plaintext.s
       IN Ret(PyStr(<<cipher_encrypt(k, iv, text)>>), 1)

\* encrypt that answers a failure of the cipher with its input
encrypt_soft(k, iv, plaintext) ==
  IF plaintext = PyNone \/ plaintext = PyStr(<<>>) THEN Ret(PyNone, 0)
  ELSE LET text == IF plaintext.t # "str" THEN py_str(plaintext) ELSE plaintext.s
       IN IF ~Encodable(text) THEN Ret(plaintext, 0)
          ELSE Ret(PyStr(<<cipher_encrypt(k, iv, text)>>), 1)

encrypt(k, iv, plaintext) ==
  IF plaintext = PyNone \/ plaintext = PyStr(<<>>) THEN Ret(PyNone, 0)
  ELSE LET text == IF plaintext.t # "str" THEN py_str(plaintext) ELSE plaintext.s
       IN \* except Exception: raise ValueError
          IF ~Encodable(text) THEN Raise("ValueError", 0, 0)
          ELSE Ret(PyStr(<<cipher_encrypt(k, iv, text)>>), 1)

\* decrypt without the isinstance test: len() of a number raises
decrypt_untyped(k, ciphertext) ==
  IF ciphertext = PyNone \/ ciphertext = PyStr(<<>>) THEN Ret(PyNone, 0)
  ELSE IF ciphertext.t # "str" THEN Raise("TypeError", 0, 0)
  ELSE IF \/ StrLen(ciphertext.s) < MinCipherLen
          \/ ~looks_like_base64(ciphertext.s)
       THEN Ret(ciphertext, 0)
  ELSE LET encrypted_bytes == b64decode(ciphertext.s) IN
       IF ~encrypted_bytes.ok THEN Ret(ciphertext, 0)
       ELSE LET decrypted == cipher_decrypt(k, encrypted_bytes.body) IN
            IF decrypted.ok THEN Ret(PyStr(decrypted.pt), 1)
            ELSE Ret(ciphertext, 1)

\* the strict revision of decrypt: a failed decryption raises
decrypt_strict(k, ciphertext) ==
  IF ciphertext = PyNone \/ ciphertext = PyStr(<<>>) THEN Ret(PyNone, 0)
  ELSE IF ciphertext.t # "str" THEN Ret(PyStr(py_str(ciphertext)), 0)
  ELSE IF \/ StrLen(ciphertext.s) < MinCipherLen
          \/ ~looks_like_base64(ciphertext.s)
       THEN Ret(ciphertext, 0)
  ELSE LET encrypted_bytes == b64decode(ciphertext.s) IN
       IF ~encrypted_bytes.ok THEN Raise("ValueError", 0, 0)
       ELSE LET decrypted == cipher_decrypt(k, encrypted_bytes.body) IN
            IF decrypted.ok THEN Ret(PyStr(decrypted.pt), 1)
            ELSE Raise("ValueError", 1, 0)

\* decrypt that answers None for what does not look like ciphertext
decrypt_plain_to_null(k, ciphertext) ==
  IF ciphertext = PyNone \/ ciphertext = PyStr(<<>>) THEN Ret(PyNone, 0)
  ELSE IF ciphertext.t # "str" THEN Ret(PyStr(py_str(ciphertext)), 0)
  ELSE IF \/ StrLen(ciphertext.s) < MinCipherLen
          \/ ~looks_like_base64(ciphertext.s)
       THEN Ret(PyNone, 0)
  ELSE LET encrypted_bytes == b64decode(ciphertext.s) IN
       IF ~encrypted_bytes.ok THEN Ret(ciphertext, 0)
       ELSE LET decrypted == cipher_decrypt(k, encrypted_bytes.body) IN
            IF decrypted.ok THEN Ret(PyStr(decrypted.pt), 1)
            ELSE Ret(ciphertext, 1)

\* decrypt that returns a value that is no string as it is
decrypt_keeping_type(k, ciphertext) ==
  IF ciphertext = PyNone \/ ciphertext = PyStr(<<>>) THEN Ret(PyNone, 0)
  ELSE IF ciphertext.t # "str" THEN Ret(ciphertext, 0)
  ELSE IF \/ StrLen(ciphertext.s) < MinCipherLen
          \/ ~looks_like_base64(ciphertext.s)
       THEN Ret(ciphertext, 0)
  ELSE LET encrypted_bytes == b64decode(ciphertext.s) IN
       IF ~encrypted_bytes.ok THEN Ret(ciphertext, 0)
       ELSE LET decrypted == cipher_decrypt(k, encrypted_bytes.body) IN
            IF decrypted.ok THEN Ret(PyStr(decrypted.pt), 1)
            ELSE Ret(ciphertext, 1)

decrypt(k, ciphertext) ==
  IF ciphertext = PyNone \/ ciphertext = PyStr(<<>>) THEN Ret(PyNone, 0)
  ELSE IF ciphertext.t # "str" THEN Ret(PyStr(py_str(ciphertext)), 0)
  ELSE IF \/ StrLen(ciphertext.s) < MinCipherLen
          \/ ~looks_like_base64(ciphertext.s)
       THEN Ret(ciphertext, 0)
  ELSE LET encrypted_bytes == b64decode(ciphertext.s) IN
       IF ~encrypted_bytes.ok THEN Ret(ciphertext, 0)
       ELSE LET decrypted == cipher_decrypt(k, encrypted_bytes.body) IN
            IF decrypted.ok THEN Ret(PyStr(decrypted.pt), 1)
            ELSE Ret(ciphertext, 1)

(* ---------------- json.dumps(data, ensure_ascii=False) ----------------- *)
\* json.dumps that writes string bodies as they are
EscapeNothing(s) == s

Drop(s, n) == SubSeq(s, n + 1, Len(s))

RECURSIVE EscapeStr(_)
\* the body of a JSON string: '"', '\' and the newline are escaped
EscapeStr(s) ==
  LET \* the places of the characters to escape
      found == {i \in 1..Len(s) : s[i] \in {Ch("\""), Ch("\\"), Ch("\n")}}
      \* the text up to the first of them, its escape, and the rest escaped
      replaced(i) ==
        SubSeq(s, 1, i - 1)
        \o <<Ch("\\"), IF s[i] = Ch("\n") THEN Ch("n") ELSE s[i]>>
        \o EscapeStr(Drop(s, i))
  IN IF found = {} THEN s
     ELSE replaced(CHOOSE i \in found : \A j \in found : i <= j)

Quoted(s) == <<Ch("\"")>> \o EscapeStr(s) \o <<Ch("\"")>>

RECURSIVE json_dumps(_), DumpItems(_), DumpMembers(_)
json_dumps(v) ==
  CASE v.t = "none" -> Chars(<<"n", "u", "l", "l">>)
    [] v.t = "bool" -> IF v.b THEN Chars(<<"t", "r", "u", "e">>)
                       ELSE Chars(<<"f", "a", "l", "s", "e">>)
    [] v.t = "int" -> py_str(v)
    [] v.t = "float" -> py_str(v)
    [] v.t = "str" -> Quoted(v.s)
    [] v.t = "list" -> <<Ch("[")>> \o DumpItems(v.items) \o <<Ch("]")>>
    [] v.t = "dict" -> <<Ch("{")>> \o DumpMembers(v.d) \o <<Ch("}")>>

\* the items of a list, separated by ', '
DumpItems(items) ==
  IF items = <<>> THEN <<>>
  ELSE json_dumps(Head(items))
       \o (IF Tail(items) = <<>> THEN <<>>
           ELSE <<Ch(","), Ch(" ")>> \o DumpItems(Tail(items)))

\* the members of a dict, '"key": value' separated by ', ', in dict order
DumpMembers(d) ==
  IF DOMAIN d = {} THEN <<>>
  ELSE LET k == CHOOSE x \in DOMAIN d : TRUE
           rest == [x \in DOMAIN d \ {k} |-> d[x]]
       IN Quoted(k) \o <<Ch(":"), Ch(" ")>> \o json_dumps(d[k])
          \o (IF DOMAIN rest = {} THEN <<>>
              ELSE <<Ch(","), Ch(" ")>> \o DumpMembers(rest))

(* ----------------------------- json.loads ------------------------------ *)
Parsed(v, rest) == [ok |-> TRUE, val |-> v, rest |-> rest]
ParseFail == [ok |-> FALSE, val |-> PyNone, rest |-> <<>>]

IsWs(it) == it \in {Ch(" "), Ch("\n")}
IsDigit(it) == it.k = "ch" /\ \E i \in 1..10 : Digits[i] = it.c
DigitVal(it) == (CHOOSE i \in 1..10 : Digits[i] = it.c) - 1

RECURSIVE SkipWs(_)
SkipWs(s) == IF s # <<>> /\ IsWs(Head(s)) THEN SkipWs(Tail(s)) ELSE s

StartsWith(s, cs) == Len(s) >= Len(cs) /\ SubSeq(s, 1, Len(cs)) = Chars(cs)

RECURSIVE ParseDigits(_, _)
\* the longest run of digits at the head of s, as a number
ParseDigits(s, acc) ==
  IF s # <<>> /\ IsDigit(Head(s))
  THEN ParseDigits(Tail(s), 10 * acc + DigitVal(Head(s)))
  ELSE [n |-> acc, rest |-> s]

\* -?(0|[1-9][0-9]*)(\.[0-9])?   (one digit after the point is all str(float)
\* of this model writes)
ParseNumber(s) ==
  LET neg == s # <<>> /\ Head(s) = Ch("-")
      body == IF neg THEN Tail(s) ELSE s
      sgn == IF neg THEN -1 ELSE 1
  IN IF body = <<>> \/ ~IsDigit(Head(body)) THEN ParseFail
     ELSE LET int == IF Head(body) = Ch("0") THEN [n |-> 0, rest |-> Tail(body)]
                     ELSE ParseDigits(body, 0)
              r == int.rest
          IN IF Len(r) >= 2 /\ r[1] = Ch(".") /\ IsDigit(r[2])
             THEN Parsed(PyFloat(sgn * (10 * int.n + DigitVal(r[2]))), Drop(r, 2))
             ELSE Parsed(PyInt(sgn * int.n), r)

RECURSIVE ParseString(_, _)
\* s follows the opening quote; acc is the text read so far
ParseString(s, acc) ==
  LET \* the places of a quote, a backslash or a control character
      found == {i \in 1..Len(s) : s[i] \in {Ch("\""), Ch("\\"), Ch("\n")}}
      \* the chunk of text up to the first of them, at end, is read at once
      scanned(end, chunk) ==
        CASE s[end] = Ch("\"") -> Parsed(PyStr(chunk), Drop(s, end))
          [] s[end] = Ch("\n") -> ParseFail
          [] OTHER ->
               IF Len(s) < end + 1 THEN ParseFail
               ELSE CASE s[end + 1] \in {Ch("\""), Ch("\\"), Ch("/")} ->
                           ParseString(Drop(s, end + 1), Append(chunk, s[end + 1]))
                      [] s[end + 1] = Ch("n") ->
                           ParseString(Drop(s, end + 1), Append(chunk, Ch("\n")))
                      [] OTHER -> ParseFail
      first(end) == scanned(end, acc \o SubSeq(s, 1, end - 1))
  IN IF found = {} THEN ParseFail
     ELSE first(CHOOSE i \in found : \A j \in found : i <= j)

RECURSIVE ParseValue(_), ParseItems(_, _), ParseMembers(_, _)
ParseValue(s0) ==
  LET s == SkipWs(s0) IN
  CASE s = <<>> -> ParseFail
    [] StartsWith(s, <<"n", "u", "l", "l">>) -> Parsed(PyNone, Drop(s, 4))
    [] StartsWith(s, <<"t", "r", "u", "e">>) -> Parsed(PyBool(TRUE), Drop(s, 4))
    [] StartsWith(s, <<"f", "a", "l", "s", "e">>) -> Parsed(PyBool(FALSE), Drop(s, 5))
    [] StartsWith(s, <<"\"">>) -> ParseString(Tail(s), <<>>)
    [] StartsWith(s, <<"[">>) ->
         LET r == SkipWs(Tail(s)) IN
         IF StartsWith(r, <<"]">>) THEN Parsed(PyList(<<>>), Tail(r))
         ELSE ParseItems(r, <<>>)
    [] StartsWith(s, <<"{">>) ->
         LET r == SkipWs(Tail(s)) IN
         IF StartsWith(r, <<"}">>) THEN Parsed(PyDict(<<>>), Tail(r))
         ELSE ParseMembers(r, <<>>)
    [] OTHER -> ParseNumber(s)

\* value (, value)* ]
ParseItems(s, acc) ==
  LET v == ParseValue(s) IN
  IF ~v.ok THEN ParseFail
  ELSE LET r == SkipWs(v.rest) IN
       CASE StartsWith(r, <<",">>) -> ParseItems(Tail(r), Append(acc, v.val))
         [] StartsWith(r, <<"]">>) -> Parsed(PyList(Append(acc, v.val)), Tail(r))
         [] OTHER -> ParseFail

\* "key" : value (, "key" : value)* }     a repeated key keeps its last value
ParseMembers(s0, acc) ==
  LET s == SkipWs(s0) IN
  IF ~StartsWith(s, <<"\"">>) THEN ParseFail
  ELSE LET k == ParseString(Tail(s), <<>>) IN
    IF ~k.ok THEN ParseFail
    ELSE LET c == SkipWs(k.rest) IN
      IF ~StartsWith(c, <<":">>) THEN ParseFail
      ELSE LET v == ParseValue(Tail(c)) IN
        IF ~v.ok THEN ParseFail
        ELSE LET r == SkipWs(v.rest)
                 d == [x \in DOMAIN acc \cup {k.val.s} |->
                         IF x = k.val.s THEN v.val ELSE acc[x]]
             IN CASE StartsWith(r, <<",">>) -> ParseMembers(Tail(r), d)
                  [] StartsWith(r, <<"}">>) -> Parsed(PyDict(d), Tail(r))
                  [] OTHER -> ParseFail

\* json.loads(s): the value, or ok = FALSE for JSONDecodeError
json_loads(s) ==
  LET whole(v) == IF v.ok /\ SkipWs(v.rest) = <<>> THEN v ELSE ParseFail
  IN whole(ParseValue(s))

\* encrypt_json that tests only for None
encrypt_json_none_only(k, iv, data) ==
  IF data = PyNone THEN Ret(PyNone, 0)
  ELSE Via(encrypt(k, iv, PyStr(json_dumps(data))))

encrypt_json(k, iv, data) ==
  IF ~Truthy(data) THEN Ret(PyNone, 0)
  ELSE LET json_str == PyStr(json_dumps(data))
       IN Via(encrypt(k, iv, json_str))

decrypt_json(k, ciphertext) ==
  IF ~Truthy(ciphertext) THEN Ret(PyNone, 0)
  ELSE LET loaded(d, parsed) ==
             IF parsed.ok THEN Via(Ret(parsed.val, d.cipher))
             ELSE Raise("ValueError", d.cipher, 1)
           decrypted(d) ==
             LET json_str == d.ret
             IN IF ~Truthy(json_str) THEN Via(Ret(PyNone, d.cipher))
                ELSE loaded(d, json_loads(json_str.s))
       IN decrypted(decrypt(k, ciphertext))

(* --------------------------- PII field policy -------------------------- *)
ni_number == Chars(<<"n", "i", "_", "n", "u", "m", "b", "e", "r">>)
pensionable_salary ==
  Chars(<<"p", "e", "n", "s", "i", "o", "n", "a", "b", "l", "e", "_",
          "s", "a", "l", "a", "r", "y">>)
date_of_birth ==
  Chars(<<"d", "a", "t", "e", "_", "o", "f", "_", "b", "i", "r", "t", "h">>)
full_name == Chars(<<"f", "u", "l", "l", "_", "n", "a", "m", "e">>)

PolicyFields == {ni_number, pensionable_salary, date_of_birth}

\* d.get(f)
Get(d, f) == IF f \in DOMAIN d THEN d[f] ELSE PyNone
\* d[f] = v
Put(d, f, v) == [x \in DOMAIN d \cup {f} |-> IF x = f THEN v ELSE d[x]]

\* one field of encrypt_employee_pii; stringify: the field is passed as str(value)
EncryptField(k, iv, r, f, stringify) ==
  IF r.exc # "none" THEN r
  ELSE IF Truthy(Get(r.ret.d, f))
  THEN LET v == r.ret.d[f]
           assigned(e) ==
             IF e.exc # "none"
             THEN Raise(e.exc, r.cipher + e.cipher, r.inner + 1)
             ELSE [ret |-> PyDict(Put(r.ret.d, f, e.ret)), exc |-> "none",
                   cipher |-> r.cipher + e.cipher, inner |-> r.inner + 1]
       IN assigned(encrypt(k, iv, IF stringify THEN PyStr(py_str(v)) ELSE v))
  ELSE r

\* encrypt_employee_pii that fills in the policy fields the record lacks
encrypt_employee_pii_inventing(k, iv, employee_data) ==
  LET full == PyDict([f \in DOMAIN employee_data.d \cup PolicyFields |->
                        Get(employee_data.d, f)])
      a == EncryptField(k, iv, Ret(full, 0), ni_number, FALSE)
      b == EncryptField(k, iv, a, pensionable_salary, TRUE)
  IN EncryptField(k, iv, b, date_of_birth, TRUE)

\* encrypt_employee_pii that leaves date_of_birth out
encrypt_employee_pii_two_fields(k, iv, employee_data) ==
  LET a == EncryptField(k, iv, Ret(employee_data, 0), ni_number, FALSE)
  IN EncryptField(k, iv, a, pensionable_salary, TRUE)

encrypt_employee_pii(k, iv, employee_data) ==
  LET encrypted_data == Ret(employee_data, 0)
      a == EncryptField(k, iv, encrypted_data, ni_number, FALSE)
      b == EncryptField(k, iv, a, pensionable_salary, TRUE)
  IN EncryptField(k, iv, b, date_of_birth, TRUE)

\* one field of decrypt_employee_pii
DecryptField(k, r, f) ==
  IF Truthy(Get(r.ret.d, f))
  THEN LET assigned(e) ==
             [ret |-> PyDict(Put(r.ret.d, f, e.ret)), exc |-> "none",
              cipher |-> r.cipher + e.cipher, inner |-> r.inner + 1]
       IN assigned(decrypt(k, r.ret.d[f]))
  ELSE r

decrypt_employee_pii(k, employee_data) ==
  LET decrypted_data == Ret(employee_data, 0)
      a == DecryptField(k, decrypted_data, ni_number)
      b == DecryptField(k, a, pensionable_salary)
  IN DecryptField(k, b, date_of_birth)

(* ------------------------------- inputs -------------------------------- *)
\* characters that may follow the fixed prefix of a literal
TailAlphabet == {"=", "-", "\n"}
\* prefix lengths on both sides of the two length thresholds
PrefixLens == {0, MinCipherLen - 1, Base64MinLen - 1, Base64MinLen,
               Base64MinLen + 4}

RECURSIVE Tails(_)
Tails(n) == IF n = 0 THEN {<<>>}
            ELSE Tails(n - 1) \cup
                 {Append(t, c) : t \in {x \in Tails(n - 1) : Len(x) = n - 1},
                                 c \in TailAlphabet}

\* legacy plaintext strings: 'A' * n followed by a few free characters
Prefix(n) == IF n = 0 THEN <<>> ELSE <<Run("A", n)>>
Literals == {PyStr(Prefix(n) \o Chars(t)) : n \in PrefixLens, t \in Tails(MaxTail)}

Samples == {Lit(<<"A", "B", "1", "2">>),
            Lit(<<"A", "B", "1", "2", "3", "4", "5", "6", "C">>),
            Lit(<<"5", "5", "0", "0", "0">>),
            Lit(<<"1", "9", "9", "0", "-", "0", "1", "-", "0", "1">>)}

Numbers == {PyInt(0), PyInt(7), PyInt(-3), PyInt(55000),
            PyFloat(0), PyFloat(15), PyFloat(-5), PyBool(TRUE), PyBool(FALSE)}

Scalars == {PyNone} \cup Literals \cup Samples \cup Numbers

\* JSON-compatible documents
DocLeaves == {PyNone, PyBool(TRUE), PyBool(FALSE), PyInt(0), PyInt(7), PyInt(-3),
              PyFloat(15), PyFloat(0), Lit(<<>>), Lit(<<"J", "a", "n", "e">>),
              Lit(<<"a", "\"", "\\", "\n">>)}
DocSmall == {PyNone, PyInt(7), Lit(<<"a", "\"", "\\", "\n">>)}
DocKeys == {Chars(<<"a">>), full_name}

ListsOver(S) == {PyList(<<>>)} \cup {PyList(<<x>>) : x \in S}
                \cup {PyList(<<x, y>>) : x \in S, y \in S}
DictsOver(S) == UNION {{PyDict(f) : f \in [K -> S]} : K \in SUBSET DocKeys}

Docs1 == ListsOver(DocSmall) \cup DictsOver(DocSmall)
Docs2 == {PyList(<<x>>) : x \in Docs1}
         \cup {PyDict([f \in {Chars(<<"a">>)} |-> x]) : x \in Docs1}
Docs == DocLeaves \cup Docs1 \cup Docs2

\* employee records
FieldValues == {PyNone, PyInt(0), PyInt(55000),
                Lit(<<"A", "B", "1", "2", "3", "4", "5", "6", "C">>)}
WideValues == FieldValues \cup
              {Lit(<<>>), PyFloat(15), PyBool(TRUE), PyStr(Prefix(Base64MinLen + 4)),
               Lit(<<"1", "9", "9", "0", "-", "0", "1", "-", "0", "1">>)}
Jane == Lit(<<"J", "a", "n", "e">>)
Records ==
  \* any subset of the policy fields, each with any of a few values
  UNION {{PyDict(f) : f \in [K -> FieldValues]} : K \in SUBSET PolicyFields}
  \* all policy fields and a field outside the policy
  \cup {PyDict(Put([f \in PolicyFields |-> v], full_name, Jane)) : v \in WideValues}
  \* the record of the policy-completeness scenario
  \cup {PyDict([f \in PolicyFields |->
                  CASE f = ni_number ->
                         Lit(<<"A", "B", "1", "2", "3", "4", "5", "6", "C">>)
                    [] f = pensionable_salary -> Lit(<<"5", "5", "0", "0", "0">>)
                    [] f = date_of_birth ->
                         Lit(<<"1", "9", "9", "0", "-", "0", "1", "-", "0", "1">>)])}

(* what the store may hand back for a value written earlier *)
IsBlob(v) == v.t = "str" /\ Len(v.s) = 1 /\ v.s[1].k = "tok"
\* bytes changed in the store: same text shape, no longer authentic
Tampered(v) == PyStr(<<[v.s[1] EXCEPT !.good = FALSE]>>)
\* written by a process that held another key
Rekeyed(v, k) == PyStr(<<[v.s[1] EXCEPT !.key = k]>>)
Suffixed(v, c) == PyStr(Append(v.s, Ch(c)))

\* the readings of a stored ciphertext
Variants(v) ==
  IF IsBlob(v)
  THEN {v, Tampered(v), Suffixed(v, "\n"), Suffixed(v, "="), Suffixed(v, "A")}
       \cup {Rekeyed(v, k) : k \in Keys}
  ELSE {v}

\* the readings of a stored record: every ciphertext in it read the same way
RecordVariants(v) ==
  {v,
   PyDict([f \in DOMAIN v.d |->
             IF f \in PolicyFields /\ IsBlob(v.d[f]) THEN Tampered(v.d[f])
             ELSE v.d[f]])}
  \cup {PyDict([f \in DOMAIN v.d |->
                  IF f \in PolicyFields /\ IsBlob(v.d[f])
                  THEN Rekeyed(v.d[f], k) ELSE v.d[f]]) : k \in Keys}

ValueDepth(v) == IF v.t = "str" THEN Depth(v.s) ELSE 0
RecordDepth(v) ==
  IF \E f \in DOMAIN v.d : ValueDepth(v.d[f]) >= MaxDepth THEN MaxDepth
  ELSE IF \E f \in DOMAIN v.d : ValueDepth(v.d[f]) >= 1 THEN 1 ELSE 0

\* The state keeps the last call only, so fresh caller input after every call
\* would add transitions and no states: a call takes fresh input right after
\* start, and afterwards what the last call left behind.
Fresh(S) == IF op = "init" THEN S ELSE {}

\* the last call wrote its result to the store
Written == op \in {"encrypt", "encrypt_json", "encrypt_employee_pii"}

\* a scalar read back: any reading of what was just written, or the last result
Stored == IF res.t \in {"list", "dict"} THEN {}
          ELSE IF Written THEN Variants(res) ELSE {res}
\* a record read back
StoredRecord == IF res.t # "dict" \/ op \notin {"encrypt_employee_pii",
                                               "decrypt_employee_pii"} THEN {}
                ELSE IF Written THEN RecordVariants(res) ELSE {res}
\* a ciphertext just written, passed to encrypt again
Again == IF op = "encrypt" /\ IsBlob(res) THEN {res} ELSE {}
AgainRecord == IF op = "encrypt_employee_pii" THEN {res} ELSE {}

(* ------------------------ requests in progress ------------------------ *)
\* no submit_form request and no login request is in progress
NoSubmitters ==
  /\ token_row = PyNone
  /\ submitters = <<>>
  /\ accepted = 0
NoLogins ==
  /\ failed_login_attempts = <<>>
  /\ now = 0
  /\ fifth = -1

(* --------------------------- the key and Fernet ------------------------ *)
\* length of a Fernet key in bytes
FernetKeyBytes == 32
\* the characters base64.urlsafe_b64decode takes as data
UrlsafeAlphabet == (B64Alphabet \cup {"-", "_"})

RECURSIVE KeyWalk(_, _, _)
\* base64.urlsafe_b64decode(key): count is the number of data characters so
\* far, pads the '=' seen since the last one; gives the number of bytes
KeyWalk(s, count, pads) ==
  IF s = <<>> THEN [ok |-> count % 4 = 0, n |-> 3 * (count \div 4)]
  ELSE LET it == Head(s) IN
    CASE it.k = "ch" /\ it.c = "=" ->
           IF count % 4 >= 2 /\ (count % 4) + pads + 1 >= 4
           THEN [ok |-> TRUE, n |-> 3 * (count \div 4) + (count % 4) - 1]
           ELSE KeyWalk(Tail(s), count,
                        IF count % 4 >= 2 THEN pads + 1 ELSE pads)
      [] it.k \in {"ch", "run"} /\ it.c \in UrlsafeAlphabet ->
           KeyWalk(Tail(s), count + ItemLen(it), 0)
      [] OTHER -> KeyWalk(Tail(s), count, pads)

\* Fernet(key) accepts the key: it is encodable, decodes, and to 32 bytes
FernetAccepts(s) ==
  /\ Encodable(s)
  /\ \A i \in 1..Len(s) : s[i].k # "tok"
  /\ KeyWalk(s, 0, 0).ok
  /\ KeyWalk(s, 0, 0).n = FernetKeyBytes

\* the text of key k as Fernet.generate_key() gives it: 43 characters and '='
KeyString(k) == PyStr(<<Run(IF k = 1 THEN "A" ELSE "B", 43), Ch("=")>>)
\* the key a key string stands for
KeyOf(v) == IF v = KeyString(2) THEN 2 ELSE 1

\* an EncryptionService object: the n-th one built, with its Fernet key
Instance(n, v) == [t |-> "EncryptionService", id |-> n, cipher |-> v]

\* EncryptionService() that takes any non-empty key
EncryptionService_unchecked(v, n) ==
  IF ~Truthy(v) THEN [ret |-> PyNone, exc |-> "ValueError"]
  ELSE [ret |-> Instance(n + 1, v), exc |-> "none"]

\* EncryptionService(): __init__ with the environment value v of
\* ENCRYPTION_KEY (None: not set); n: the objects built so far
EncryptionService(v, n) ==
  IF ~Truthy(v) THEN [ret |-> PyNone, exc |-> "ValueError"]
  ELSE IF ~FernetAccepts(v.s) THEN [ret |-> PyNone, exc |-> "ValueError"]
  ELSE [ret |-> Instance(n + 1, v), exc |-> "none"]

\* the process after its first request built the service from v
Built(v) ==
  /\ environ = v
  /\ _encryption_service = Instance(1, v)
  /\ phase = "serving"
  /\ getenv_calls = 1
  /\ constructions = 1
  /\ requests = 0
  /\ earlier = PyNone

(* ------------------------------ operations ----------------------------- *)
\* nothing found outside the process
NoEnv == [iv |-> 0]

Done(name, a, r) ==
  /\ op' = name
  /\ arg' = a
  /\ res' = r.ret
  /\ exc' = r.exc
  /\ cipher' = r.cipher
  /\ inner' = r.inner
  \* no operation of the envelope assigns to its argument (the PII
  \* operations write to employee_data.copy()) or touches a table
  /\ caller' = a
  /\ env' = NoEnv
  /\ logged' = PyNone
  /\ employees' = <<>>
  /\ change_information' = <<>>
  /\ audit_logs' = <<>>
  /\ form_submissions' = <<>>
  /\ form_tokens' = <<>>
  /\ UNCHANGED <<key, lifecycle, submitting, signing_in>>

Init ==
  /\ key \in Keys
  /\ op = "init"
  /\ arg = PyNone
  /\ res = PyNone
  /\ exc = "none"
  /\ cipher = 0
  /\ inner = 0
  /\ caller = PyNone
  /\ env = NoEnv
  /\ logged = PyNone
  /\ employees = <<>>
  /\ change_information = <<>>
  /\ audit_logs = <<>>
  /\ form_submissions = <<>>
  /\ form_tokens = <<>>
  \* the service was built from the key at the first request
  /\ Built(KeyString(key))
  /\ NoSubmitters
  /\ NoLogins

Encrypt ==
  \E v \in Fresh(Scalars) \cup Again, iv \in 1..MaxIv :
    /\ ValueDepth(v) < MaxDepth
    /\ Done("encrypt", v, encrypt(key, iv, v))

Decrypt ==
  \E v \in Fresh(Scalars) \cup Stored :
    Done("decrypt", v, decrypt(key, v))

EncryptJson ==
  \E d \in Fresh(Docs), iv \in 1..MaxIv :
    Done("encrypt_json", d, encrypt_json(key, iv, d))

DecryptJson ==
  \E v \in Fresh(Scalars \cup {PyStr(json_dumps(d)) : d \in Docs1})
           \cup Stored :
    Done("decrypt_json", v, decrypt_json(key, v))

EncryptEmployeePii ==
  \E r \in Fresh(Records) \cup AgainRecord, iv \in 1..MaxIv :
    /\ RecordDepth(r) < MaxDepth
    /\ Done("encrypt_employee_pii", r, encrypt_employee_pii(key, iv, r))

DecryptEmployeePii ==
  \E r \in Fresh(Records) \cup StoredRecord :
    Done("decrypt_employee_pii", r, decrypt_employee_pii(key, r))

(* ------------------------ records of the tables ------------------------ *)
\* column names, keys of request bodies and of the audit detail document
Name ==
  [id |-> Chars(<<"i", "d">>),
   organization_id |-> Chars(<<"o", "r", "g", "a", "n", "i", "z", "a", "t",
         "i", "o", "n", "_", "i", "d">>),
   created_by_user_id |-> Chars(<<"c", "r", "e", "a", "t", "e", "d", "_", "b",
         "y", "_", "u", "s", "e", "r", "_", "i", "d">>),
   service_status |-> Chars(<<"s", "e", "r", "v", "i", "c", "e", "_", "s",
         "t", "a", "t", "u", "s">>),
   io_upload_status |-> Chars(<<"i", "o", "_", "u", "p", "l", "o", "a", "d",
         "_", "s", "t", "a", "t", "u", "s">>),
   submitted_via |-> Chars(<<"s", "u", "b", "m", "i", "t", "t", "e", "d", "_",
         "v", "i", "a">>),
   created_at |-> Chars(<<"c", "r", "e", "a", "t", "e", "d", "_", "a", "t">>),
   old_data |-> Chars(<<"o", "l", "d", "_", "d", "a", "t", "a">>),
   new_data |-> Chars(<<"n", "e", "w", "_", "d", "a", "t", "a">>),
   metadata |-> Chars(<<"m", "e", "t", "a", "d", "a", "t", "a">>),
   record_id |-> Chars(<<"r", "e", "c", "o", "r", "d", "_", "i", "d">>),
   pii_fields_encrypted |-> Chars(<<"_", "p", "i", "i", "_", "f", "i", "e",
         "l", "d", "s", "_", "e", "n", "c", "r", "y", "p", "t", "e", "d">>),
   value |-> Chars(<<"v", "a", "l", "u", "e">>),
   deleted_ids |-> Chars(<<"d", "e", "l", "e", "t", "e", "d", "_", "i", "d",
         "s">>),
   count |-> Chars(<<"c", "o", "u", "n", "t">>),
   filters |-> Chars(<<"f", "i", "l", "t", "e", "r", "s">>),
   record_count |-> Chars(<<"r", "e", "c", "o", "r", "d", "_", "c", "o", "u",
         "n", "t">>),
   company_id |-> Chars(<<"c", "o", "m", "p", "a", "n", "y", "_", "i", "d">>),
   advice_type |-> Chars(<<"a", "d", "v", "i", "c", "e", "_", "t", "y", "p",
         "e">>),
   pension_provider |-> Chars(<<"p", "e", "n", "s", "i", "o", "n", "_", "p",
         "r", "o", "v", "i", "d", "e", "r">>),
   from_date |-> Chars(<<"f", "r", "o", "m", "_", "d", "a", "t", "e">>),
   to_date |-> Chars(<<"t", "o", "_", "d", "a", "t", "e">>),
   ids |-> Chars(<<"i", "d", "s">>),
   deleted_count |-> Chars(<<"d", "e", "l", "e", "t", "e", "d", "_", "c", "o",
         "u", "n", "t">>),
   NINumber |-> Chars(<<"N", "I", "N", "u", "m", "b", "e", "r">>),
   PensionableSalary |-> Chars(<<"P", "e", "n", "s", "i", "o", "n", "a", "b",
         "l", "e", "S", "a", "l", "a", "r", "y">>),
   DateofBirth |-> Chars(<<"D", "a", "t", "e", "o", "f", "B", "i", "r", "t",
         "h", "*">>),
   nationalInsuranceNumber |-> Chars(<<"n", "a", "t", "i", "o", "n", "a", "l",
         "I", "n", "s", "u", "r", "a", "n", "c", "e", "N", "u", "m", "b", "e",
         "r">>),
   dateOfBirth |-> Chars(<<"d", "a", "t", "e", "O", "f", "B", "i", "r", "t",
         "h">>),
   salary |-> Chars(<<"s", "a", "l", "a", "r", "y">>),
   forename |-> Chars(<<"f", "o", "r", "e", "n", "a", "m", "e">>),
   firstName |-> Chars(<<"f", "i", "r", "s", "t", "N", "a", "m", "e">>),
   changeType |-> Chars(<<"c", "h", "a", "n", "g", "e", "T", "y", "p", "e">>),
   first_name |-> Chars(<<"f", "i", "r", "s", "t", "_", "n", "a", "m", "e">>),
   change_type |-> Chars(<<"c", "h", "a", "n", "g", "e", "_", "t", "y", "p",
         "e">>),
   employee_id |-> Chars(<<"e", "m", "p", "l", "o", "y", "e", "e", "_", "i",
         "d">>),
   submission_id |-> Chars(<<"s", "u", "b", "m", "i", "s", "s", "i", "o", "n",
         "_", "i", "d">>),
   form_id |-> Chars(<<"f", "o", "r", "m", "_", "i", "d">>),
   token |-> Chars(<<"t", "o", "k", "e", "n">>),
   submission_method |-> Chars(<<"s", "u", "b", "m", "i", "s", "s", "i", "o",
         "n", "_", "m", "e", "t", "h", "o", "d">>),
   change_id |-> Chars(<<"c", "h", "a", "n", "g", "e", "_", "i", "d">>),
   company_name |-> Chars(<<"c", "o", "m", "p", "a", "n", "y", "_", "n", "a",
         "m", "e">>),
   new_name |-> Chars(<<"n", "e", "w", "_", "n", "a", "m", "e">>),
   new_address |-> Chars(<<"n", "e", "w", "_", "a", "d", "d", "r", "e", "s",
         "s">>),
   new_salary |-> Chars(<<"n", "e", "w", "_", "s", "a", "l", "a", "r", "y">>),
   new_employee_contribution |-> Chars(<<"n", "e", "w", "_", "e", "m", "p",
         "l", "o", "y", "e", "e", "_", "c", "o", "n", "t", "r", "i", "b", "u",
         "t", "i", "o", "n">>),
   new_employer_contribution |-> Chars(<<"n", "e", "w", "_", "e", "m", "p",
         "l", "o", "y", "e", "r", "_", "c", "o", "n", "t", "r", "i", "b", "u",
         "t", "i", "o", "n">>),
   processing_status |-> Chars(<<"p", "r", "o", "c", "e", "s", "s", "i", "n",
         "g", "_", "s", "t", "a", "t", "u", "s">>),
   updated_at |-> Chars(<<"u", "p", "d", "a", "t", "e", "d", "_", "a", "t">>),
   submission_data |-> Chars(<<"s", "u", "b", "m", "i", "s", "s", "i", "o",
         "n", "_", "d", "a", "t", "a">>),
   data |-> Chars(<<"d", "a", "t", "a">>),
   limit |-> Chars(<<"l", "i", "m", "i", "t">>),
   offset |-> Chars(<<"o", "f", "f", "s", "e", "t">>),
   error |-> Chars(<<"e", "r", "r", "o", "r">>),
   companies |-> Chars(<<"c", "o", "m", "p", "a", "n", "i", "e", "s">>),
   name |-> Chars(<<"n", "a", "m", "e">>)]

\* action types of audit entries
Action ==
  [CREATE |-> Lit(<<"C", "R", "E", "A", "T", "E">>),
   UPDATE |-> Lit(<<"U", "P", "D", "A", "T", "E">>),
   DELETE |-> Lit(<<"D", "E", "L", "E", "T", "E">>),
   BULK_DELETE |-> Lit(<<"B", "U", "L", "K", "_", "D", "E", "L", "E", "T",
         "E">>),
   EXPORT |-> Lit(<<"E", "X", "P", "O", "R", "T">>),
   form_submission |-> Lit(<<"f", "o", "r", "m", "_", "s", "u", "b", "m", "i",
         "s", "s", "i", "o", "n">>)]

\* table names of audit entries
Table ==
  [employees |-> Lit(<<"e", "m", "p", "l", "o", "y", "e", "e", "s">>),
   companies |-> Lit(<<"c", "o", "m", "p", "a", "n", "i", "e", "s">>),
   forms |-> Lit(<<"f", "o", "r", "m", "s">>),
   app_config |-> Lit(<<"a", "p", "p", "_", "c", "o", "n", "f", "i", "g">>),
   employee |-> Lit(<<"e", "m", "p", "l", "o", "y", "e", "e">>),
   change_information |-> Lit(<<"c", "h", "a", "n", "g", "e", "_", "i", "n",
         "f", "o", "r", "m", "a", "t", "i", "o", "n">>)]

\* what the session, the store and the clock give: current_user["id"],
\* current_user["organization_id"], the ids of the rows the store inserts or
\* finds, the token of the form link, the name of the company, utcnow()
Given ==
  [user_id |-> Lit(<<"u", "1">>),
   organization_id |-> Lit(<<"o", "r", "g", "1">>),
   employee_id |-> Lit(<<"e", "1">>),
   submission_id |-> Lit(<<"s", "1">>),
   form_id |-> Lit(<<"f", "1">>),
   company_id |-> Lit(<<"c", "1">>),
   change_id |-> Lit(<<"c", "h", "1">>),
   token |-> Lit(<<"t", "o", "k", "1">>),
   company_name |-> Lit(<<"A", "c", "m", "e">>),
   now |-> Lit(<<"t", "0">>)]

\* string literals of the handlers
Word ==
  [Active |-> Lit(<<"A", "c", "t", "i", "v", "e">>),
   manual |-> Lit(<<"m", "a", "n", "u", "a", "l">>),
   form_link |-> Lit(<<"f", "o", "r", "m", "_", "l", "i", "n", "k">>),
   public_form |-> Lit(<<"p", "u", "b", "l", "i", "c", "_", "f", "o", "r",
         "m">>),
   pending |-> Lit(<<"p", "e", "n", "d", "i", "n", "g">>),
   Unknown_User |-> Lit(<<"U", "n", "k", "n", "o", "w", "n", " ", "U", "s",
         "e", "r">>),
   Failed_to_decrypt |-> Lit(<<"F", "a", "i", "l", "e", "d", " ", "t", "o",
         " ", "d", "e", "c", "r", "y", "p", "t">>)]

\* d.pop(f, None)
Pop(d, f) == [x \in DOMAIN d \ {f} |-> d[x]]
\* d[f] = v if f not in d
SetDefault(d, f, v) == IF f \in DOMAIN d THEN d ELSE Put(d, f, v)

\* what an operation of a handler or of the audit service leaves behind
NoWrites == [employees |-> <<>>, change_information |-> <<>>,
             audit_logs |-> <<>>, form_submissions |-> <<>>,
             form_tokens |-> <<>>]
Reply(ret, e, c, lg, w) ==
  [ret |-> ret, exc |-> e, caller |-> c, logged |-> lg, w |-> w]

(* ---------------------------- audit service ---------------------------- *)
\* the comprehension with date_of_birth left out of the list of its filter
SanitizedButBirth(data) ==
  PyDict([f \in DOMAIN data.d \ {ni_number, pensionable_salary} |-> data.d[f]])

\* {k: v for k, v in data.items()
\*    if k not in ['ni_number', 'date_of_birth', 'pensionable_salary']}
Sanitized(data) == PyDict([f \in DOMAIN data.d \ PolicyFields |-> data.d[f]])

\* the details dict log_action builds
Details(record_id, old_data, new_data, metadata) ==
  LET \* if v: details[f] = v
      set(details, f, v) == IF Truthy(v) THEN Put(details, f, v) ELSE details
  IN PyDict(set(set(set(set(<<>>, Name.old_data, old_data),
                        Name.new_data, new_data),
                    Name.metadata, metadata),
                Name.record_id, record_id))

\* log_action that lets its exceptions out
log_action_raising(k, e, action, table_name, record_id, old_data, new_data, metadata) ==
  LET log_entry(encrypted_details) ==
        [action |-> action, resource |-> table_name,
         user_id |-> Given.user_id, organization_id |-> Given.organization_id,
         details |-> encrypted_details.ret, ip_address |-> PyNone]
      inserted(encrypted_details) ==
        IF encrypted_details.exc # "none"
        THEN [ret |-> PyNone, exc |-> encrypted_details.exc, rows |-> <<>>]
        ELSE IF ~e.audit THEN [ret |-> PyNone, exc |-> "APIError", rows |-> <<>>]
        ELSE [ret |-> PyBool(TRUE), exc |-> "none",
              rows |-> <<log_entry(encrypted_details)>>]
      encrypted(details) ==
        inserted(IF Truthy(details) THEN encrypt_json(k, e.iv, details)
                 ELSE Ret(PyNone, 0))
  IN encrypted(Details(record_id, old_data, new_data, metadata))

\* AuditService.log_action: ret is what it returns, rows what audit_logs
\* stored; e.audit: the insert into audit_logs succeeds.  created_at (the
\* clock) is left out of the entry.
log_action(k, e, action, table_name, record_id, old_data, new_data, metadata) ==
  LET log_entry(encrypted_details) ==
        [action |-> action, resource |-> table_name,
         user_id |-> Given.user_id, organization_id |-> Given.organization_id,
         details |-> encrypted_details.ret, ip_address |-> PyNone]
      inserted(encrypted_details) ==
        \* except Exception: return False
        IF encrypted_details.exc # "none" \/ ~e.audit
        THEN [ret |-> PyBool(FALSE), exc |-> "none", rows |-> <<>>]
        ELSE [ret |-> PyBool(TRUE), exc |-> "none",
              rows |-> <<log_entry(encrypted_details)>>]
      encrypted(details) ==
        inserted(IF Truthy(details) THEN encrypt_json(k, e.iv, details)
                 ELSE Ret(PyNone, 0))
  IN encrypted(Details(record_id, old_data, new_data, metadata))

\* the wrappers return nothing; the result of their call of log_action is
\* kept for the caller's state
log_employee_create(k, e, employee_id, employee_data) ==
  LET sanitized_data ==
        PyDict(Put(Sanitized(employee_data).d, Name.pii_fields_encrypted,
                   PyBool(TRUE)))
  IN log_action(k, e, Action.CREATE, Table.employees, employee_id,
                PyNone, sanitized_data, PyNone)

log_employee_update(k, e, employee_id, old_data, new_data) ==
  LET sanitized_old == Sanitized(old_data)
      sanitized_new == Sanitized(new_data)
  IN log_action(k, e, Action.UPDATE, Table.employees, employee_id,
                sanitized_old, sanitized_new, PyNone)

log_employee_delete(k, e, employee_id, employee_data) ==
  LET sanitized_data == Sanitized(employee_data)
  IN log_action(k, e, Action.DELETE, Table.employees, employee_id,
                sanitized_data, PyNone, PyNone)

log_bulk_delete(k, e, table_name, record_ids) ==
  log_action(k, e, Action.BULK_DELETE, table_name, PyNone, PyNone, PyNone,
             PyDict(Put(Put(<<>>, Name.deleted_ids, record_ids),
                        Name.count, PyInt(Len(record_ids.items)))))

log_export(k, e, table_name, filters, record_count) ==
  log_action(k, e, Action.EXPORT, table_name, PyNone, PyNone, PyNone,
             PyDict(Put(Put(<<>>, Name.filters, filters),
                        Name.record_count, PyInt(record_count))))

log_company_action(k, e, action, company_id, company_data, old_data) ==
  log_action(k, e, action, Table.companies, company_id, old_data,
             IF action # Action.DELETE THEN company_data ELSE PyNone, PyNone)

log_form_action(k, e, action, form_id, form_data, old_data) ==
  log_action(k, e, action, Table.forms, form_id, old_data,
             IF action # Action.DELETE THEN form_data ELSE PyNone, PyNone)

log_settings_change(k, e, setting_name, old_value, new_value) ==
  log_action(k, e, Action.UPDATE, Table.app_config, setting_name,
             PyDict(Put(<<>>, Name.value, old_value)),
             PyDict(Put(<<>>, Name.value, new_value)), PyNone)

(* the calls of the audit service *)
\* a string json.dumps writes and str.encode('utf-8') rejects
Unencodable == PyStr(<<Ch("J"), Surrogate>>)
\* the record of the redaction scenario
JaneWithNi ==
  PyDict(Put(Put(<<>>, full_name, Jane), ni_number,
             Lit(<<"A", "B", "1", "2", "3", "4", "5", "6", "C">>)))
PolicyOnly ==
  PyDict([f \in PolicyFields |->
            IF f = pensionable_salary THEN PyInt(55000)
            ELSE Lit(<<"A", "B", "1", "2">>)])
\* dicts handed to the audit service as old_data, new_data, employee_data
EmployeeData == {PyDict(<<>>), PyDict(Put(<<>>, full_name, Jane)), JaneWithNi,
                 PolicyOnly, PyDict(Put(<<>>, full_name, Unencodable))}
AuditData == {PyNone} \cup EmployeeData
RecordIds == {PyNone, Given.employee_id}
AuditEnvs == {[iv |-> iv, audit |-> up] : iv \in 1..MaxIv, up \in BOOLEAN}

Args(a, b, c) == [t |-> "args", a |-> a, b |-> b, c |-> c]
ActionArgs(action, a, b) == [t |-> "args", action |-> action, a |-> a, b |-> b]

\* the state after a call of a handler or of the audit service
Handled(name, a, e, o) ==
  /\ op' = name
  /\ arg' = a
  /\ res' = o.ret
  /\ exc' = o.exc
  /\ cipher' = 0
  /\ inner' = 0
  /\ caller' = o.caller
  /\ env' = e
  /\ logged' = o.logged
  /\ employees' = o.w.employees
  /\ change_information' = o.w.change_information
  /\ audit_logs' = o.w.audit_logs
  /\ form_submissions' = o.w.form_submissions
  /\ form_tokens' = o.w.form_tokens
  /\ UNCHANGED <<key, lifecycle, submitting, signing_in>>

\* the state after a call of the audit service that gave l
Logged(name, a, e, ret, l) ==
  Handled(name, a, e,
          Reply(ret, l.exc, a, l.ret, [NoWrites EXCEPT !.audit_logs = l.rows]))

LogAction ==
  \E record_id \in Fresh(RecordIds), old_data \in AuditData,
     new_data \in AuditData, e \in AuditEnvs :
    LET l == log_action(key, e, Action.UPDATE, Table.employees, record_id,
                        old_data, new_data, PyNone)
    IN Logged("log_action", Args(record_id, old_data, new_data), e, l.ret, l)

LogEmployeeCreate ==
  \E employee_data \in Fresh(EmployeeData), e \in AuditEnvs :
    Logged("log_employee_create", Args(Given.employee_id, employee_data, PyNone), e,
           PyNone, log_employee_create(key, e, Given.employee_id, employee_data))

LogEmployeeUpdate ==
  \E old_data \in Fresh(EmployeeData), new_data \in EmployeeData,
     e \in AuditEnvs :
    Logged("log_employee_update", Args(Given.employee_id, old_data, new_data), e,
           PyNone, log_employee_update(key, e, Given.employee_id, old_data, new_data))

LogEmployeeDelete ==
  \E employee_data \in Fresh(EmployeeData), e \in AuditEnvs :
    Logged("log_employee_delete", Args(Given.employee_id, employee_data, PyNone), e,
           PyNone, log_employee_delete(key, e, Given.employee_id, employee_data))

LogCompanyAction ==
  \E action \in Fresh({Action.CREATE, Action.UPDATE, Action.DELETE}),
     company_data \in EmployeeData, old_data \in AuditData, e \in AuditEnvs :
    Logged("log_company_action", ActionArgs(action, company_data, old_data),
           e, PyNone,
           log_company_action(key, e, action, Given.employee_id, company_data, old_data))

LogFormAction ==
  \E action \in Fresh({Action.CREATE, Action.UPDATE, Action.DELETE}),
     form_data \in EmployeeData, old_data \in AuditData, e \in AuditEnvs :
    Logged("log_form_action", ActionArgs(action, form_data, old_data),
           e, PyNone,
           log_form_action(key, e, action, Given.employee_id, form_data, old_data))

LogSettingsChange ==
  \E old_value \in Fresh({PyNone, PyInt(7), Jane, JaneWithNi}),
     new_value \in {PyNone, PyInt(7), Jane, JaneWithNi}, e \in AuditEnvs :
    Logged("log_settings_change", Args(Given.employee_id, old_value, new_value), e,
           PyNone,
           log_settings_change(key, e, Given.employee_id, old_value, new_value))

(* --------------------------- employee routes --------------------------- *)
\* writes of a table: the row as the table holds it afterwards (for a delete,
\* the row removed)
Insert(row) == [w |-> "insert", row |-> row]
Update(row) == [w |-> "update", row |-> row]
Delete(row) == [w |-> "delete", row |-> row]
Wrote(table, writes) ==
  CASE table = "employees" -> [NoWrites EXCEPT !.employees = writes]
    [] table = "change_information" ->
         [NoWrites EXCEPT !.change_information = writes]
    [] table = "audit_logs" -> [NoWrites EXCEPT !.audit_logs = writes]
\* raise HTTPException(status_code): the handler's dict c, the writes w so far
Http(code, c, w) == Reply(PyNone, code, c, PyNone, w)
\* the handler returns ret after the call l of the audit service
Audited(ret, c, l, w) ==
  IF l.exc # "none" THEN Http("HTTP500", c, w)
  ELSE Reply(ret, "none", c, l.ret, [w EXCEPT !.audit_logs = l.rows])

\* create_employee; e.db: what the insert into employees does ("ok": the row
\* is stored and returned with its id, "empty": no row comes back, "down": it
\* raises).  The request has no company_id, and the e-mail notification
\* changes nothing here.
create_employee(k, e, employee_data) ==
  LET inserted(mutated, encrypted, employee) ==
        IF encrypted.exc # "none" \/ e.db = "down"
        THEN Http("HTTP500", mutated, NoWrites)
        ELSE IF e.db = "empty" THEN Http("HTTP400", mutated, NoWrites)
        ELSE Audited(decrypt_employee_pii(k, employee).ret, mutated,
                     log_employee_create(k, e, employee.d[Name.id],
                                         encrypted.ret),
                     Wrote("employees", <<Insert(employee)>>))
      encrypted(mutated, r) ==
        inserted(mutated, r, PyDict(Put(r.ret.d, Name.id, Given.employee_id)))
      mutated(employee) ==
        encrypted(employee, encrypt_employee_pii(k, e.iv, employee))
  IN mutated(PyDict(
       SetDefault(
         SetDefault(
           SetDefault(
             Put(Put(employee_data.d,
                     Name.organization_id, Given.organization_id),
                 Name.created_by_user_id, Given.user_id),
             Name.service_status, Word.Active),
           Name.io_upload_status, PyBool(FALSE)),
         Name.submitted_via, Word.manual)))

\* the row after update(values).eq("id", ...)
Merged(row, values) ==
  PyDict([f \in DOMAIN row.d \cup DOMAIN values.d |->
            IF f \in DOMAIN values.d THEN values.d[f] ELSE row.d[f]])

\* update_employee; e.existing: the row with that id (None: there is none),
\* e.db: what the update does
update_employee(k, e, employee_id, employee_data) ==
  LET old_employee_data == e.existing
      updated(mutated, encrypted, employee) ==
        IF e.existing = PyNone THEN Http("HTTP404", employee_data, NoWrites)
        ELSE IF encrypted.exc # "none" \/ e.db = "down"
        THEN Http("HTTP500", mutated, NoWrites)
        ELSE IF e.db = "empty" THEN Http("HTTP400", mutated, NoWrites)
        ELSE Audited(decrypt_employee_pii(k, employee).ret, mutated,
                     log_employee_update(k, e, employee_id, old_employee_data,
                                         employee),
                     Wrote("employees", <<Update(employee)>>))
      encrypted(mutated, r) ==
        updated(mutated, r,
                Merged(e.existing,
                       PyDict(Pop(Pop(r.ret.d, Name.created_at),
                                  Name.created_by_user_id))))
      mutated(employee) ==
        encrypted(employee, encrypt_employee_pii(k, e.iv, employee))
  IN mutated(PyDict(Pop(Pop(employee_data.d, Name.id), Name.organization_id)))

\* delete_employee
delete_employee(k, e, employee_id) ==
  IF e.existing = PyNone THEN Http("HTTP404", employee_id, NoWrites)
  ELSE IF e.db = "down" THEN Http("HTTP500", employee_id, NoWrites)
  ELSE LET employee_data == e.existing
           w == Wrote("employees", <<Delete(employee_data)>>)
           l == log_employee_delete(k, e, employee_id, employee_data)
       IN Audited(PyNone, employee_id, l, w)

\* bulk_delete_employees
bulk_delete_employees(k, e, data) ==
  LET employee_ids == IF Name.ids \in DOMAIN data.d THEN data.d[Name.ids]
                      ELSE PyList(<<>>)
  IN IF ~Truthy(employee_ids) THEN Http("HTTP400", data, NoWrites)
     ELSE IF e.db = "down" THEN Http("HTTP500", data, NoWrites)
     ELSE LET w == Wrote("employees",
                         IF e.existing # PyNone
                              /\ \E i \in 1..Len(employee_ids.items) :
                                   employee_ids.items[i] = e.existing.d[Name.id]
                         THEN <<Delete(e.existing)>> ELSE <<>>)
              l == log_bulk_delete(k, e, Table.employees, employee_ids)
          IN Audited(PyDict(Put(<<>>, Name.deleted_count,
                                PyInt(Len(employee_ids.items)))), data, l, w)

\* [f(r) for r in rows]
RECURSIVE MapRows(_, _)
MapRows(F(_), rows) ==
  IF rows = <<>> THEN <<>> ELSE <<F(Head(rows))>> \o MapRows(F, Tail(rows))

\* get_employees; rows: what the select gives (without the companies join)
get_employees(k, e, rows) ==
  IF e.db = "down" THEN Http("HTTP500", PyNone, NoWrites)
  ELSE LET decrypted(employee) == decrypt_employee_pii(k, employee).ret
       IN Reply(PyList(MapRows(decrypted, rows)), "none", PyNone, PyNone,
                NoWrites)

\* get_employee
get_employee(k, e, employee_id, rows) ==
  IF e.db = "down" THEN Http("HTTP500", employee_id, NoWrites)
  ELSE IF rows = <<>> THEN Http("HTTP404", employee_id, NoWrites)
  ELSE Reply(decrypt_employee_pii(k, rows[1]).ret, "none", employee_id,
             PyNone, NoWrites)

\* search_employees: the rows the store matched, as they are
search_employees(k, e, q, rows) ==
  IF e.db = "down" THEN Http("HTTP500", q, NoWrites)
  ELSE Reply(PyList(rows), "none", q, PyNone, NoWrites)

\* a cell as csv.DictWriter writes it
CsvCell(v) == IF v = PyNone THEN PyStr(<<>>) ELSE PyStr(py_str(v))

\* the three cells of a row of the IO template that come from policy fields
TemplateRow(emp) ==
  LET cell(f) == IF f \in DOMAIN emp.d THEN emp.d[f] ELSE PyStr(<<>>)
  IN PyDict(Put(Put(Put(<<>>,
       Name.DateofBirth, CsvCell(cell(date_of_birth))),
       Name.NINumber, CsvCell(cell(ni_number))),
       Name.PensionableSalary,
         IF Truthy(Get(emp.d, pensionable_salary))
         THEN PyStr(py_str(Get(emp.d, pensionable_salary)))
         ELSE PyStr(<<>>)))

\* the filters of an export without query parameters
NoFilters ==
  PyDict([f \in {Name.company_id, Name.advice_type, Name.pension_provider,
                 Name.service_status, Name.from_date, Name.to_date} |-> PyNone])

\* export_employees_io_template; the result is the rows of the CSV file
export_employees_io_template(k, e, rows) ==
  LET row(emp) == TemplateRow(decrypt_employee_pii(k, emp).ret)
      exported(io_template_rows) ==
        Audited(PyList(io_template_rows), PyNone,
                log_export(k, e, Table.employees, NoFilters,
                           Len(io_template_rows)),
                NoWrites)
  IN IF e.db = "down" THEN Http("HTTP500", PyNone, NoWrites)
     ELSE exported(MapRows(row, rows))

(* the calls of the employee routes *)
\* request bodies of create_employee
ScenarioRequest ==
  PyDict(Put([f \in PolicyFields |->
                CASE f = ni_number ->
                       Lit(<<"A", "B", "1", "2", "3", "4", "5", "6", "C">>)
                  [] f = pensionable_salary -> PyInt(55000)
                  [] f = date_of_birth ->
                       Lit(<<"1", "9", "9", "0", "-", "0", "1", "-", "0", "1">>)],
             full_name, Jane))
Requests ==
  {ScenarioRequest,
   PyDict(Put(Put(<<>>, full_name, Jane), pensionable_salary, PyInt(0))),
   PyDict(Put(Put(<<>>, full_name, Jane), ni_number, Unencodable)),
   PyDict(Put(Put(<<>>, full_name, Unencodable), ni_number,
              Lit(<<"A", "B", "1", "2">>))),
   PyDict(Put(Put(<<>>, Name.service_status, Lit(<<"L", "e", "f", "t">>)),
              ni_number, Lit(<<"A", "B", "1", "2">>)))}
\* request bodies of update_employee
Updates ==
  {PyDict(Put(Put(Put(<<>>, ni_number, Lit(<<"A", "B", "1", "2">>)),
                  Name.id, Lit(<<"e", "9">>)), Name.organization_id, Lit(<<"o", "9">>))),
   PyDict(Put(<<>>, full_name, Lit(<<"J", "o">>))),
   PyDict(Put(<<>>, date_of_birth, Unencodable)),
   PyDict(Put(<<>>, full_name, Unencodable)),
   PyDict(Put(Put(<<>>, pensionable_salary, PyInt(0)),
              Name.created_at, Lit(<<"t">>)))}
\* request bodies of bulk_delete_employees
BulkDeletes ==
  {PyDict(<<>>), PyDict(Put(<<>>, Name.ids, PyList(<<>>))),
   PyDict(Put(<<>>, Name.ids, PyList(<<Given.employee_id>>))),
   PyDict(Put(<<>>, Name.ids, PyList(<<Given.employee_id, Lit(<<"e", "9">>)>>)))}

DbAnswers == {"ok", "empty", "down"}
\* what a handler finds: the iv the cipher draws, the row with the
\* employee's id, what the write to the table does, whether the insert into
\* audit_logs succeeds
HandlerEnvs(rows) ==
  {[iv |-> iv, existing |-> x, db |-> db, audit |-> up] :
     iv \in 1..MaxIv, x \in rows, db \in DbAnswers, up \in BOOLEAN}
\* what a handler that only reads finds
ReadEnvs == {[iv |-> 1, existing |-> PyNone, db |-> db, audit |-> TRUE] :
               db \in {"ok", "down"}}

\* the row the last call stored in employees
StoredEmployee(kinds) ==
  IF employees # <<>> /\ employees[1].w \in kinds THEN {employees[1].row}
  ELSE {}
\* the employee the call is about: the one just created, or none at the start
Existing == StoredEmployee({"insert"}) \cup Fresh({PyNone})
\* what a select gives: no row at the start; afterwards a reading of the row
\* just stored, alone or after the row as stored
RowsRead ==
  Fresh({<<>>})
  \cup UNION {{<<r>> : r \in RecordVariants(x)}
              \cup {<<x, r>> : r \in RecordVariants(x) \ {x}} :
                x \in StoredEmployee({"insert", "update"})}

CreateEmployee ==
  \E employee_data \in Fresh(Requests), e \in HandlerEnvs({PyNone}) :
    Handled("create_employee", employee_data, e,
            create_employee(key, e, employee_data))

\* a client sends a record back as the read just made returned it (the last
\* one of a list): the record, the row it was read from, and the handler
\* that read it
Resubmissions ==
  IF op \in {"get_employee", "get_employees", "search_employees"}
       /\ exc = "none"
       /\ \A i \in 1..Len(arg.items) : RecordDepth(arg.items[i]) < MaxDepth
  THEN LET shown == IF res.t = "list" THEN res.items ELSE <<res>>
       IN {[employee_data |-> shown[i], existing |-> arg.items[i], read |-> op] :
             i \in {Len(shown)} \ {0}}
  ELSE {}

UpdateEmployee ==
  \/ \E employee_data \in Updates, e \in HandlerEnvs(Existing) :
       Handled("update_employee", employee_data, e,
               update_employee(key, e, Given.employee_id, employee_data))
  \/ \E r \in Resubmissions :
       LET e == [iv |-> MaxIv, existing |-> r.existing, db |-> "ok",
                 audit |-> TRUE, read |-> r.read]
       IN Handled("update_employee", r.employee_data, e,
                  update_employee(key, e, Given.employee_id, r.employee_data))

DeleteEmployee ==
  \E e \in HandlerEnvs(Existing) :
    Handled("delete_employee", Given.employee_id, e,
            delete_employee(key, e, Given.employee_id))

BulkDeleteEmployees ==
  \E data \in BulkDeletes, e \in HandlerEnvs(Existing) :
    Handled("bulk_delete_employees", data, e,
            bulk_delete_employees(key, e, data))

GetEmployees ==
  \E rows \in RowsRead, e \in ReadEnvs :
    Handled("get_employees", PyList(rows), e, get_employees(key, e, rows))

GetEmployee ==
  \E rows \in RowsRead, e \in ReadEnvs :
    Handled("get_employee", PyList(rows), e,
            get_employee(key, e, Given.employee_id, rows))

SearchEmployees ==
  \E rows \in RowsRead, e \in ReadEnvs :
    Handled("search_employees", PyList(rows), e,
            search_employees(key, e, Lit(<<"A", "B">>), rows))

ExportEmployeesIoTemplate ==
  \E rows \in RowsRead, e \in HandlerEnvs({PyNone}) :
    Handled("export_employees_io_template", PyList(rows), e,
            export_employees_io_template(key, e, rows))

(* ------------------------- public form routes -------------------------- *)
\* db_service.create_audit_log(log_data): the insert, True or False
create_audit_log(e, log_data) ==
  IF e.audit THEN [ret |-> PyBool(TRUE), exc |-> "none", rows |-> <<log_data>>]
  ELSE [ret |-> PyBool(FALSE), exc |-> "none", rows |-> <<>>]

\* "{" + ",".join(f'"{item}"' for item in change_type_array) + "}", for a
\* changeType that is a string or absent
ChangeTypePg(change_type) ==
  IF change_type.t = "str"
  THEN PyStr(<<Ch("{"), Ch("\"")>> \o change_type.s \o <<Ch("\""), Ch("}")>>)
  ELSE PyStr(<<Ch("{"), Ch("}")>>)

\* the writes that follow the first insert in both branches of submit_form:
\* the submission record, then the submission count of the token
AfterInsert(k, e, submission_data, w) ==
  LET submitted(encrypted_submission_data) ==
        [exc |-> encrypted_submission_data.exc,
         w |-> IF encrypted_submission_data.exc # "none" THEN w
               ELSE [w EXCEPT
                       !.form_submissions =
                          <<Insert([form_id |-> Given.form_id,
                                    submission_data |->
                                      encrypted_submission_data.ret,
                                    status |-> "completed"])>>,
                       !.form_tokens =
                          <<Update([submission_count |->
                                      e.token.submission_count + 1])>>]]
  IN submitted(encrypt_json(k, e.iv, submission_data))

\* submit_form; e.token: the form_tokens row of the token (found: there is
\* one), e.db: what the insert into employees or change_information does.
\* Of the columns copied from the submission and the company, those this
\* handler or a later read works on are kept.
submit_form(k, e, token, submission_data) ==
  LET token_record == e.token
      sub(f) == Get(submission_data.d, f)
      answer(id_key, id, after, audit) ==
        IF after.exc # "none" THEN Http("HTTP500", submission_data, after.w)
        ELSE Reply(PyDict(Put(Put(Put(<<>>,
                     id_key, id),
                     Name.submission_id, Given.submission_id),
                     Name.company_name, Given.company_name)),
                   "none", submission_data, PyNone,
                   [after.w EXCEPT !.audit_logs = audit.rows])
      log_data(resource, details) ==
        [action |-> Action.form_submission, resource |-> resource,
         user_id |-> PyNone, organization_id |-> Given.organization_id,
         details |-> PyDict(details), ip_address |-> PyNone]
      ids(id_key, id) ==
        Put(Put(Put(Put(Put(Put(<<>>,
          id_key, PyStr(py_str(id))),
          Name.submission_id, Given.submission_id),
          Name.form_id, Given.form_id),
          Name.company_id, Given.company_id),
          Name.token, token),
          Name.submission_method, Word.public_form)
      \* the branch of a change_information_upload token
      change(change_record) ==
        IF e.db = "down" THEN Http("HTTP500", submission_data, NoWrites)
        ELSE IF e.db = "empty" THEN Http("HTTP400", submission_data, NoWrites)
        ELSE answer(Name.change_id, change_record.d[Name.id],
                    AfterInsert(k, e, submission_data,
                                Wrote("change_information",
                                      <<Insert(change_record)>>)),
                    create_audit_log(e,
                      log_data(Table.change_information,
                               Put(ids(Name.change_id, change_record.d[Name.id]),
                                   Name.change_type, sub(Name.changeType)))))
      \* the branch of the other tokens
      new_employee(encrypted, employee) ==
        IF encrypted.exc # "none" \/ e.db = "down"
        THEN Http("HTTP500", submission_data, NoWrites)
        ELSE IF e.db = "empty" THEN Http("HTTP400", submission_data, NoWrites)
        ELSE answer(Name.employee_id, employee.d[Name.id],
                    AfterInsert(k, e, submission_data,
                                Wrote("employees", <<Insert(employee)>>)),
                    create_audit_log(e,
                      log_data(Table.employee,
                               ids(Name.employee_id, employee.d[Name.id]))))
      encrypted(r) ==
        new_employee(r, PyDict(Put(r.ret.d, Name.id, Given.employee_id)))
  IN
  IF ~token_record.found THEN Http("HTTP404", submission_data, NoWrites)
  ELSE IF ~token_record.is_active \/ token_record.expired
          \/ (token_record.max_submissions # 0
                /\ token_record.submission_count >= token_record.max_submissions)
  THEN Http("HTTP403", submission_data, NoWrites)
  ELSE IF token_record.template_type = "change_information_upload"
  THEN change(PyDict(Put(Put(Put(Put(Put(Put(<<>>,
         Name.organization_id, Given.organization_id),
         Name.first_name, sub(Name.firstName)),
         date_of_birth, sub(Name.dateOfBirth)),
         Name.change_type, ChangeTypePg(sub(Name.changeType))),
         Name.submitted_via, Word.form_link),
         Name.id, Given.change_id)))
  ELSE encrypted(encrypt_employee_pii(k, e.iv,
         PyDict(Put(Put(Put(Put(Put(Put(Put(Put(<<>>,
           Name.organization_id, Given.organization_id),
           Name.first_name, sub(Name.forename)),
           ni_number, sub(Name.nationalInsuranceNumber)),
           date_of_birth, sub(Name.dateOfBirth)),
           pensionable_salary, sub(Name.salary)),
           Name.submitted_via, Word.form_link),
           Name.service_status, Word.Active),
           Name.io_upload_status, PyBool(FALSE)))))

(* the calls of the public form routes *)
TokenRecord(active, expired, count, max, type) ==
  [found |-> TRUE, is_active |-> active, expired |-> expired,
   submission_count |-> count, max_submissions |-> max,
   template_type |-> type]
\* the form_tokens rows a token may have; max_submissions 0 stands for null
TokenRecords ==
  {[found |-> FALSE],
   TokenRecord(TRUE, FALSE, 0, 0, "new_employee_upload"),
   TokenRecord(TRUE, FALSE, 0, 1, "change_information_upload"),
   TokenRecord(FALSE, FALSE, 0, 0, "new_employee_upload"),
   TokenRecord(TRUE, TRUE, 0, 0, "new_employee_upload"),
   TokenRecord(TRUE, FALSE, 1, 1, "new_employee_upload")}
\* request bodies of submit_form
Submissions ==
  {PyDict(Put(Put(Put(Put(<<>>,
     Name.forename, Jane),
     Name.nationalInsuranceNumber,
       Lit(<<"A", "B", "1", "2", "3", "4", "5", "6", "C">>)),
     Name.salary, Lit(<<"5", "5", "0", "0", "0">>)),
     Name.dateOfBirth, Lit(<<"1", "9", "9", "0", "-", "0", "1", "-", "0", "1">>))),
   PyDict(Put(Put(<<>>, Name.forename, Jane),
              Name.nationalInsuranceNumber, Unencodable)),
   PyDict(Put(Put(<<>>, Name.forename, Unencodable),
              Name.nationalInsuranceNumber, Lit(<<"A", "B", "1", "2">>))),
   PyDict(Put(Put(<<>>, Name.firstName, Jane), Name.changeType, Lit(<<"n", "a", "m", "e">>)))}
SubmitEnvs ==
  {[iv |-> iv, token |-> t, db |-> db, audit |-> up] :
     iv \in 1..MaxIv, t \in TokenRecords, db \in DbAnswers, up \in BOOLEAN}

SubmitForm ==
  \E submission_data \in Fresh(Submissions), e \in SubmitEnvs :
    Handled("submit_form", submission_data, e,
            submit_form(key, e, Given.token, submission_data))

(* ---------------------- change information routes --------------------- *)
\* create_change_information; e.db: what the insert does.  The audit call,
\* audit_service.log_activity, is to a method AuditService does not have:
\* the AttributeError is caught and logged.
create_change_information(k, e, change_data) ==
  LET a == Put(Put(change_data.d, Name.organization_id, Given.organization_id),
               Name.created_by_user_id, Given.user_id)
      b == Put(a, Name.processing_status,
               IF Name.processing_status \in DOMAIN change_data.d
               THEN change_data.d[Name.processing_status] ELSE Word.pending)
      c == Put(Put(b, Name.created_at, Given.now), Name.updated_at, Given.now)
      insert_data == PyDict(Pop(Pop(c, Name.id), Name.company_name))
      row == PyDict(Put(insert_data.d, Name.id, Given.change_id))
  IN IF e.db \in {"down", "empty"} THEN Http("HTTP500", change_data, NoWrites)
     ELSE Reply(row, "none", change_data, PyNone,
                Wrote("change_information", <<Insert(row)>>))

\* update_change_information; e.existing: the row with that id; e.missing:
\* what single() does when there is none (it raises, or gives no data)
update_change_information(k, e, change_id, change_data) ==
  LET a == Put(change_data.d, Name.updated_at, Given.now)
      b == Pop(Pop(Pop(a, Name.id), Name.organization_id), Name.created_by_user_id)
      update_data == PyDict(Pop(Pop(b, Name.created_at), Name.company_name))
      row == Merged(e.existing, update_data)
  IN IF e.existing = PyNone THEN Http(e.missing, change_data, NoWrites)
     ELSE IF e.db \in {"down", "empty"}
     THEN Http("HTTP500", change_data, NoWrites)
     ELSE Reply(row, "none", change_data, PyNone,
                Wrote("change_information", <<Update(row)>>))

(* the calls of the change information routes *)
ChangeRequests ==
  {PyDict(Put(Put(<<>>, Name.new_name, Jane), Name.new_salary, PyInt(55000))),
   PyDict(Put(Put(Put(<<>>, Name.new_address, Lit(<<"A", "B", "1", "2">>)),
                  Name.id, Lit(<<"c", "9">>)), Name.company_name, Given.company_name)),
   PyDict(Put(<<>>, Name.processing_status, Lit(<<"d", "o", "n", "e">>)))}
ChangeUpdates ==
  {PyDict(Put(<<>>, Name.new_employee_contribution, PyInt(7))),
   PyDict(Put(Put(<<>>, Name.new_name, PyNone), Name.created_at, Lit(<<"t">>))),
   PyDict(Put(<<>>, Name.new_employer_contribution, Lit(<<"5">>)))}
\* the change request the call is about: the one just created, or none
ExistingChange ==
  Fresh({PyNone})
  \cup (IF op = "create_change_information" /\ change_information # <<>>
        THEN {change_information[1].row} ELSE {})
ChangeEnvs(rows) ==
  {[iv |-> 1, existing |-> x, db |-> db, missing |-> m] :
     x \in rows, db \in DbAnswers, m \in {"HTTP404", "HTTP500"}}

CreateChangeInformation ==
  \E change_data \in Fresh(ChangeRequests), e \in ChangeEnvs({PyNone}) :
    Handled("create_change_information", change_data, e,
            create_change_information(key, e, change_data))

UpdateChangeInformation ==
  \E change_data \in ChangeUpdates, e \in ChangeEnvs(ExistingChange) :
    Handled("update_change_information", change_data, e,
            update_change_information(key, e, Given.change_id, change_data))

(* ------------------------------ listings ------------------------------ *)
\* the default page of list_submissions
DefaultLimit == 50
\* the page list_submissions returns: data, count, limit, offset
Page(data, count) ==
  PyDict(Put(Put(Put(Put(<<>>,
    Name.data, PyList(data)),
    Name.count, PyInt(count)),
    Name.limit, PyInt(DefaultLimit)),
    Name.offset, PyInt(0)))

\* list_submissions with the except clause around decrypt_json left out: the
\* error of one document reaches the handler's own except clause
list_submissions_unguarded(k, e, rows) ==
  LET listed(submission) ==
        IF Truthy(Get(submission.d, Name.submission_data))
        THEN PyDict(Put(submission.d, Name.submission_data,
                        decrypt_json(k, submission.d[Name.submission_data]).ret))
        ELSE submission
      failed(submission) ==
        /\ Truthy(Get(submission.d, Name.submission_data))
        /\ decrypt_json(k, submission.d[Name.submission_data]).exc # "none"
  IN IF e.db = "down" \/ \E i \in 1..Len(rows) : failed(rows[i])
     THEN Http("HTTP500", PyNone, NoWrites)
     ELSE Reply(Page(MapRows(listed, rows), Len(rows)), "none", PyNone, PyNone,
                NoWrites)

\* list_submissions without filters; rows: what the select gives
list_submissions(k, e, rows) ==
  LET assigned(submission, d) ==
        PyDict(Put(submission.d, Name.submission_data,
                   IF d.exc = "none" THEN d.ret
                   ELSE PyDict(Put(<<>>, Name.error, Word.Failed_to_decrypt))))
      listed(submission) ==
        IF Truthy(Get(submission.d, Name.submission_data))
        THEN assigned(submission,
                      decrypt_json(k, submission.d[Name.submission_data]))
        ELSE submission
  IN IF e.db = "down" THEN Http("HTTP500", PyNone, NoWrites)
     ELSE Reply(Page(MapRows(listed, rows), Len(rows)), "none", PyNone, PyNone,
                NoWrites)

\* the fields get_change_information passes to decrypt
ChangeCiphertexts ==
  <<Name.new_name, Name.new_address, Name.new_salary,
    Name.new_employee_contribution, Name.new_employer_contribution>>

\* if item.get(f): item[f] = encryption.decrypt(item[f])
RECURSIVE DecryptItem(_, _, _)
DecryptItem(k, item, fields) ==
  IF fields = <<>> THEN item
  ELSE DecryptItem(k,
         IF Truthy(Get(item.d, Head(fields)))
         THEN PyDict(Put(item.d, Head(fields),
                         decrypt(k, item.d[Head(fields)]).ret))
         ELSE item,
         Tail(fields))

\* get_change_information; rows: what the select with companies(name) gives
get_change_information(k, e, rows) ==
  LET named(item) ==
        IF Truthy(Get(item.d, Name.companies))
        THEN PyDict(Pop(Put(item.d, Name.company_name,
                            Get(item.d[Name.companies].d, Name.name)),
                        Name.companies))
        ELSE item
      change_request(item) == DecryptItem(k, named(item), ChangeCiphertexts)
  IN IF e.db = "down" THEN Http("HTTP500", PyNone, NoWrites)
     ELSE Reply(PyList(MapRows(change_request, rows)), "none", PyNone, PyNone,
                NoWrites)

(* the calls of the listings *)
\* the readings of a stored document
BlobReadings(v) ==
  IF IsBlob(v) THEN {v, Tampered(v)} \cup {Rekeyed(v, k) : k \in Keys}
  ELSE {v}
\* the form_submissions rows a select gives: readings of the row just stored,
\* alone or after a row without a document
SubmissionRows ==
  Fresh({<<>>})
  \cup (IF form_submissions = <<>> THEN {}
        ELSE LET row(v) ==
                   PyDict(Put(Put(Put(<<>>,
                     Name.id, Given.submission_id),
                     Name.form_id, form_submissions[1].row.form_id),
                     Name.submission_data, v))
             IN UNION {{<<row(v)>>, <<row(PyNone), row(v)>>} :
                         v \in BlobReadings(
                                 form_submissions[1].row.submission_data)})
\* the change_information rows a select gives: the row just stored, or rows
\* whose new_name was written by a process that held key k
ChangeRows ==
  LET legacy(k, good) ==
        PyDict(Put(Put(Put(Put(<<>>,
          Name.id, Given.change_id),
          Name.new_name, PyStr(<<Tok(k, 1, Jane.s, good)>>)),
          Name.new_salary, PyInt(55000)),
          Name.companies, PyDict(Put(<<>>, Name.name, Given.company_name))))
  IN Fresh({<<>>}
           \cup {<<legacy(k, g)>> : k \in Keys, g \in BOOLEAN}
           \cup {<<legacy(1, TRUE), legacy(2, g)>> : g \in BOOLEAN})
     \cup (IF change_information = <<>> THEN {}
           ELSE {<<change_information[1].row>>})

ListSubmissions ==
  \E rows \in SubmissionRows, e \in ReadEnvs :
    Handled("list_submissions", PyList(rows), e, list_submissions(key, e, rows))

GetChangeInformation ==
  \E rows \in ChangeRows, e \in ReadEnvs :
    Handled("get_change_information", PyList(rows), e,
            get_change_information(key, e, rows))

(* -------------------------- audit log routes --------------------------- *)
Uppercase == <<"A", "B", "C", "D", "E", "F", "G", "H", "I", "J", "K", "L", "M",
               "N", "O", "P", "Q", "R", "S", "T", "U", "V", "W", "X", "Y", "Z">>
Lowercase == <<"a", "b", "c", "d", "e", "f", "g", "h", "i", "j", "k", "l", "m",
               "n", "o", "p", "q", "r", "s", "t", "u", "v", "w", "x", "y", "z">>
\* s.lower()
py_lower(s) ==
  [i \in 1..Len(s) |->
     IF s[i].k = "ch" /\ \E j \in 1..Len(Uppercase) : Uppercase[j] = s[i].c
     THEN Ch(Lowercase[CHOOSE j \in 1..Len(Uppercase) : Uppercase[j] = s[i].c])
     ELSE s[i]]
\* needle in hay
py_in(needle, hay) ==
  \E i \in 0..(Len(hay) - Len(needle)) :
    SubSeq(hay, i + 1, i + Len(needle)) = needle
\* a or b
py_or(a, b) == IF Truthy(a) THEN a ELSE b

\* the key is not in the dict
Absent == [t |-> "absent"]
\* "User " followed by user_id[:8]; ids are shorter than that here
UserLabel(user_id) == PyStr(Chars(<<"U", "s", "e", "r", " ">>) \o user_id.s)
\* one turn of the loop of get_audit_logs for an entry whose details
\* decrypt_json turned into d: the entry as listed, or raised
ListedLog(e, log, d) ==
  LET details == IF ~Truthy(log.details) THEN log.details
                 ELSE IF d.exc # "none" THEN PyNone ELSE d.ret
      user_id == log.user_id
      user_name ==
        IF Truthy(user_id) /\ e.profile # PyNone
        THEN py_or(e.profile, UserLabel(user_id))
        ELSE IF Truthy(user_id) THEN UserLabel(user_id) ELSE Word.Unknown_User
      part_id(part) ==
        IF Get(details.d, part).t = "dict"
        THEN Get(Get(details.d, part).d, Name.id) ELSE PyNone
      record_id ==
        IF ~Truthy(details) THEN Absent
        ELSE py_or(py_or(Get(details.d, Name.record_id),
                         part_id(Name.new_data)),
                   part_id(Name.old_data))
  IN \* details.get of a document that is no dict: AttributeError
     IF Truthy(details) /\ details.t # "dict"
     THEN [raised |-> TRUE, log |-> log]
     ELSE [raised |-> FALSE,
           log |-> [action |-> log.action, resource |-> log.resource,
                    user_id |-> user_id, details |-> details,
                    user_name |-> user_name, user_email |-> PyStr(<<>>),
                    record_id |-> record_id]]

\* the test of the search filter on a listed entry
SearchMatches(search, log) ==
  LET matches(search_lower, shown) ==
        \/ py_in(search_lower, py_lower(log.action.s))
        \/ py_in(search_lower, py_lower(log.resource.s))
        \/ py_in(search_lower, py_lower(log.user_name.s))
        \/ py_in(search_lower, py_lower(log.user_email.s))
        \/ py_in(search_lower, py_lower(shown))
  IN matches(py_lower(search.s),
             IF log.record_id = Absent THEN <<>> ELSE py_str(log.record_id))

RECURSIVE ProcessedLogs(_, _, _, _)
\* the loop of get_audit_logs over logs: the entries listed, or raised
ProcessedLogs(k, e, search, logs) ==
  LET appended(first, rest) ==
        IF first.raised \/ rest.raised THEN [raised |-> TRUE, logs |-> <<>>]
        ELSE IF Truthy(search) /\ ~SearchMatches(search, first.log)
        THEN rest
        ELSE [raised |-> FALSE, logs |-> <<first.log>> \o rest.logs]
  IN IF logs = <<>> THEN [raised |-> FALSE, logs |-> <<>>]
     ELSE appended(ListedLog(e, Head(logs),
                             decrypt_json(k, Head(logs).details)),
                   ProcessedLogs(k, e, search, Tail(logs)))

\* get_audit_logs; logs: the rows of the organization the store gives for the
\* filters on action, resource and dates, in the order and number asked for;
\* e.profile: the full name found for the users of the entries (None: none)
get_audit_logs(k, e, search, logs) ==
  LET listed(processed_logs) ==
        IF e.db = "down" \/ processed_logs.raised
        THEN Http("HTTP500", PyNone, NoWrites)
        ELSE Reply(PyList(processed_logs.logs), "none", PyNone, PyNone,
                   NoWrites)
  IN listed(ProcessedLogs(k, e, search, logs))

(* the calls of the audit log routes *)
\* the entry the last call of the audit service or of submit_form stored
StoredAudit ==
  IF audit_logs # <<>>
       /\ op \in {"log_action", "log_employee_create", "log_employee_update",
                  "log_employee_delete", "log_company_action",
                  "log_form_action", "log_settings_change", "submit_form"}
  THEN {audit_logs[1]} ELSE {}
\* what the details column of a second entry may hold: a reading of the
\* details just stored, the ciphertext of a document that is no object,
\* plaintext left by an earlier version
DetailReadings(d) ==
  Variants(d)
  \cup {encrypt_json(key, 1, PyList(<<PyInt(7)>>)).ret,
        Lit(<<"7">>), Lit(<<"[", "7", "]">>), Lit(<<"A", "B", "1", "2">>),
        PyStr(Prefix(Base64MinLen + 4)), PyInt(0)}
\* three entries: the one stored, one with details d, one with none
LogsWith(x, d) ==
  <<x, [x EXCEPT !.details = d], [x EXCEPT !.details = PyNone]>>
\* no search term, the store answers, no profile found
PlainQuery == [search |-> PyNone, db |-> "ok", profile |-> PyNone]
\* search term, store, profile
AuditQueries ==
  {PlainQuery,
   [search |-> PyNone, db |-> "ok", profile |-> Jane],
   [search |-> PyNone, db |-> "down", profile |-> PyNone],
   [search |-> Lit(<<"U", "p", "d">>), db |-> "ok", profile |-> PyNone],
   [search |-> Lit(<<"e", "1">>), db |-> "ok", profile |-> PyNone]}
\* the listings asked for: every reading without a search term, every query
\* over the entry stored
AuditListings ==
  {[logs |-> <<>>, q |-> q] : q \in Fresh(AuditQueries)}
  \cup {[logs |-> LogsWith(x, d), q |-> PlainQuery] :
          x \in StoredAudit,
          d \in UNION {DetailReadings(y.details) : y \in StoredAudit}}
  \cup {[logs |-> LogsWith(x, x.details), q |-> q] :
          x \in StoredAudit, q \in AuditQueries}

GetAuditLogs ==
  \E c \in AuditListings :
    LET e == [iv |-> 1, db |-> c.q.db, profile |-> c.q.profile,
              search |-> c.q.search]
    IN Handled("get_audit_logs", PyList(c.logs), e,
               get_audit_logs(key, e, c.q.search, c.logs))

Next ==
  \/ Encrypt
  \/ Decrypt
  \/ EncryptJson
  \/ DecryptJson
  \/ EncryptEmployeePii
  \/ DecryptEmployeePii
  \/ LogAction
  \/ LogEmployeeCreate
  \/ LogEmployeeUpdate
  \/ LogEmployeeDelete
  \/ LogCompanyAction
  \/ LogFormAction
  \/ LogSettingsChange
  \/ CreateEmployee
  \/ UpdateEmployee
  \/ DeleteEmployee
  \/ BulkDeleteEmployees
  \/ GetEmployees
  \/ GetEmployee
  \/ SearchEmployees
  \/ ExportEmployeesIoTemplate
  \/ SubmitForm
  \/ CreateChangeInformation
  \/ UpdateChangeInformation
  \/ GetAuditLogs
  \/ ListSubmissions
  \/ GetChangeInformation

Spec == Init /\ [][Next]_vars

(* ------------------------- the service lifecycle ----------------------- *)
\* request handlers a process runs
MaxRequests == 3

\* hashlib.sha256(value.encode('utf-8')).hexdigest() of the sample strings
sha256_hexdigest(value) ==
  CASE value = PyStr(<<>>) ->
         Chars(<<
         "e", "3", "b", "0", "c", "4", "4", "2", "9", "8", "f", "c", "1", "c", "1", "4",
         "9", "a", "f", "b", "f", "4", "c", "8", "9", "9", "6", "f", "b", "9", "2", "4",
         "2", "7", "a", "e", "4", "1", "e", "4", "6", "4", "9", "b", "9", "3", "4", "c",
         "a", "4", "9", "5", "9", "9", "1", "b", "7", "8", "5", "2", "b", "8", "5", "5">>)
    [] value = Lit(<<"J", "a", "n", "e">>) ->
       Chars(<<
         "4", "f", "2", "3", "7", "9", "8", "d", "9", "2", "7", "0", "8", "3", "5", "9",
         "b", "7", "3", "4", "a", "1", "8", "1", "7", "2", "c", "9", "c", "8", "6", "4",
         "f", "1", "d", "4", "8", "0", "4", "4", "a", "7", "5", "4", "1", "1", "5", "a",
         "0", "d", "4", "b", "8", "4", "3", "b", "c", "a", "3", "a", "5", "3", "3", "2">>)
    [] value = Lit(<<"j", "a", "n", "e">>) ->
       Chars(<<
         "8", "1", "f", "8", "f", "6", "d", "d", "e", "8", "8", "3", "6", "5", "f", "3",
         "9", "2", "8", "7", "9", "6", "e", "c", "7", "a", "a", "5", "3", "f", "7", "2",
         "8", "2", "0", "b", "0", "6", "d", "b", "8", "6", "6", "4", "f", "5", "f", "e",
         "7", "6", "a", "7", "e", "b", "1", "3", "e", "2", "4", "5", "4", "6", "a", "2">>)
    [] value = Lit(<<"A", "B", "1", "2">>) ->
       Chars(<<
         "8", "e", "1", "4", "c", "1", "5", "e", "b", "3", "5", "7", "c", "a", "7", "b",
         "e", "c", "a", "7", "4", "5", "3", "a", "b", "c", "7", "3", "6", "3", "4", "1",
         "8", "7", "4", "8", "4", "3", "0", "0", "c", "5", "8", "c", "1", "0", "b", "0",
         "0", "2", "b", "2", "4", "e", "5", "1", "8", "0", "7", "5", "7", "4", "6", "1">>)
    [] value = Lit(<<"A", "B", "1", "2", "3", "4", "5", "6", "C">>) ->
       Chars(<<
         "c", "7", "4", "5", "e", "5", "a", "7", "2", "4", "6", "3", "0", "5", "b", "8",
         "1", "5", "6", "f", "3", "f", "5", "5", "d", "c", "b", "7", "f", "a", "9", "c",
         "b", "f", "8", "8", "f", "c", "2", "e", "6", "f", "6", "a", "c", "6", "a", "a",
         "2", "6", "4", "b", "8", "6", "4", "e", "0", "c", "2", "e", "b", "3", "b", "2">>)
    [] value = Lit(<<"5", "5", "0", "0", "0">>) ->
       Chars(<<
         "4", "5", "2", "0", "e", "e", "b", "3", "a", "d", "8", "1", "2", "c", "d", "2",
         "3", "d", "8", "3", "4", "f", "7", "4", "7", "5", "a", "d", "a", "6", "c", "2",
         "0", "c", "7", "4", "9", "5", "2", "3", "5", "7", "5", "e", "e", "1", "e", "b",
         "b", "c", "7", "9", "f", "4", "b", "8", "1", "9", "9", "e", "8", "9", "3", "0">>)
    [] value = Lit(<<"1", "9", "9", "0", "-", "0", "1", "-", "0", "1">>) ->
       Chars(<<
         "c", "5", "c", "c", "0", "5", "6", "2", "8", "d", "6", "4", "e", "f", "6", "5",
         "f", "a", "8", "1", "b", "1", "f", "b", "6", "e", "d", "9", "c", "b", "4", "b",
         "d", "5", "d", "d", "8", "b", "f", "9", "4", "d", "9", "5", "a", "4", "f", "b",
         "9", "c", "1", "5", "4", "0", "b", "5", "a", "d", "a", "c", "0", "0", "e", "d">>)
    [] value = PyStr(<<Run("A", 39)>>) ->
       Chars(<<
         "b", "9", "b", "5", "1", "5", "8", "5", "4", "e", "0", "4", "0", "b", "8", "d",
         "e", "3", "1", "d", "8", "5", "d", "5", "9", "7", "a", "b", "a", "2", "8", "d",
         "b", "4", "4", "6", "7", "f", "d", "0", "a", "7", "d", "6", "e", "b", "7", "7",
         "a", "3", "1", "0", "0", "5", "f", "4", "a", "6", "7", "a", "8", "f", "b", "3">>)
    [] value = PyStr(<<Run("A", 40)>>) ->
       Chars(<<
         "f", "0", "a", "2", "f", "b", "8", "0", "a", "c", "0", "6", "9", "9", "0", "7",
         "5", "f", "b", "6", "c", "7", "b", "0", "e", "e", "2", "b", "c", "c", "2", "0",
         "4", "a", "1", "d", "9", "0", "9", "e", "e", "3", "1", "4", "9", "5", "7", "1",
         "2", "1", "6", "e", "c", "9", "c", "c", "1", "d", "4", "b", "9", "f", "8", "e">>)

\* hash without the test for an empty value
hash_unguarded(value) ==
  IF value.t = "str" /\ ~Encodable(value.s)
  THEN [ret |-> PyNone, exc |-> "UnicodeEncodeError"]
  ELSE [ret |-> PyStr(sha256_hexdigest(value)), exc |-> "none"]

\* EncryptionService.hash(value)
hash(value) ==
  IF ~Truthy(value) THEN [ret |-> PyStr(<<>>), exc |-> "none"]
  ELSE IF ~Encodable(value.s)
  THEN [ret |-> PyNone, exc |-> "UnicodeEncodeError"]
  ELSE [ret |-> PyStr(sha256_hexdigest(value)), exc |-> "none"]

\* the strings hashed
HashSamples ==
  {PyStr(<<>>), Jane, Lit(<<"j", "a", "n", "e">>), Lit(<<"A", "B", "1", "2">>),
   Lit(<<"A", "B", "1", "2", "3", "4", "5", "6", "C">>),
   Lit(<<"5", "5", "0", "0", "0">>),
   Lit(<<"1", "9", "9", "0", "-", "0", "1", "-", "0", "1">>),
   PyStr(<<Run("A", 39)>>), PyStr(<<Run("A", 40)>>)}

\* the outcome of a call of get_encryption_service: what it returns or
\* raises, the singleton afterwards, the reads of the key and the objects
\* built by this call
Got(ret, e, service, reads, built) ==
  [ret |-> ret, exc |-> e, service |-> service, reads |-> reads,
   built |-> built]

\* get_encryption_service that builds a new object at every call
get_encryption_service_uncached(service, v, n) ==
  LET built == EncryptionService(v, n)
  IN IF built.exc # "none" THEN Got(PyNone, built.exc, service, 1, 0)
     ELSE Got(built.ret, "none", built.ret, 1, 1)

\* get_encryption_service(); service: the singleton before the call, v: the
\* value of ENCRYPTION_KEY, n: the objects built so far
get_encryption_service(service, v, n) ==
  IF service = PyNone
  THEN LET built == EncryptionService(v, n)
       IN IF built.exc # "none" THEN Got(PyNone, built.exc, PyNone, 1, 0)
          ELSE Got(built.ret, "none", built.ret, 1, 1)
  ELSE Got(service, "none", service, 0, 0)

\* values ENCRYPTION_KEY may have: not set, empty, the two keys, and
\* malformed ones (33 bytes, incorrect padding, 31 bytes, a word, a key
\* with a character UTF-8 cannot encode)
KeyStrings ==
  {PyNone, PyStr(<<>>), KeyString(1), KeyString(2),
   PyStr(<<Run("A", 44)>>),
   PyStr(<<Run("A", 43)>>),
   PyStr(<<Run("A", 42), Ch("="), Ch("=")>>),
   Lit(<<"k", "e", "y">>),
   PyStr(<<Run("A", 43), Surrogate, Ch("=")>>)}

\* the process right after its modules are loaded
ServiceInit ==
  /\ environ \in KeyStrings
  /\ key = IF environ = KeyString(2) THEN 2 ELSE 1
  /\ _encryption_service = PyNone
  /\ phase = "loaded"
  /\ getenv_calls = 0
  /\ constructions = 0
  /\ requests = 0
  /\ earlier = PyNone
  /\ NoSubmitters
  /\ NoLogins
  /\ op = "init"
  /\ arg = PyNone
  /\ res = PyNone
  /\ exc = "none"
  /\ cipher = 0
  /\ inner = 0
  /\ caller = PyNone
  /\ env = NoEnv
  /\ logged = PyNone
  /\ employees = <<>>
  /\ change_information = <<>>
  /\ audit_logs = <<>>
  /\ form_submissions = <<>>
  /\ form_tokens = <<>>

\* the state after a step of the process: the call, its result, the
\* invocations of the cipher, the outcome g of get_encryption_service
\* (None: it was not called)
Stepped(name, a, ret, e, n, g) ==
  /\ op' = name
  /\ arg' = a
  /\ res' = ret
  /\ exc' = e
  /\ cipher' = n
  /\ env' = [got |-> IF g = PyNone THEN PyNone ELSE g.ret,
             raised |-> IF g = PyNone THEN "none" ELSE g.exc,
             called |-> g # PyNone]
  /\ _encryption_service' = IF g = PyNone THEN _encryption_service
                            ELSE g.service
  /\ getenv_calls' = getenv_calls + (IF g = PyNone THEN 0 ELSE g.reads)
  /\ constructions' = constructions + (IF g = PyNone THEN 0 ELSE g.built)
  /\ UNCHANGED <<key, inner, caller, logged, employees, change_information,
                 audit_logs, form_submissions, form_tokens, environ,
                 submitting, signing_in>>

\* startup_event: four lines are logged
StartupEvent ==
  /\ phase = "loaded"
  /\ phase' = "serving"
  /\ Stepped("startup_event", PyNone, PyNone, "none", 0, PyNone)
  /\ UNCHANGED <<requests, earlier>>

\* health_check: a handler that does not use the service
HealthCheck ==
  /\ phase = "serving"
  /\ requests < MaxRequests
  /\ requests' = requests + 1
  /\ Stepped("health_check", PyNone, PyNone, "none", 0, PyNone)
  /\ UNCHANGED <<phase, earlier>>

\* the rows the select of get_employee gives: none, or one written under a key
ServiceRows ==
  {<<>>} \cup
  {<<PyDict(Put(Put(<<>>, Name.id, Given.employee_id),
                ni_number,
                PyStr(<<Tok(k, 1, Chars(<<"A", "B", "1", "2">>), TRUE)>>)))>> :
     k \in Keys}

\* get_employee in a process whose service may not be built yet: the select,
\* then get_encryption_service(), then decrypt_employee_pii
ServeGetEmployee ==
  /\ phase = "serving"
  /\ requests < MaxRequests
  /\ requests' = requests + 1
  /\ UNCHANGED <<phase, earlier>>
  /\ \E rows \in ServiceRows, e \in ReadEnvs :
       IF e.db = "down" \/ rows = <<>>
       THEN Stepped("get_employee", PyList(rows),
                    PyNone, IF e.db = "down" THEN "HTTP500" ELSE "HTTP404",
                    0, PyNone)
       ELSE LET answered(g) ==
                  IF g.exc # "none"
                  THEN Stepped("get_employee", PyList(rows), PyNone, "HTTP500",
                               0, g)
                  ELSE Stepped("get_employee", PyList(rows),
                               decrypt_employee_pii(KeyOf(g.ret.cipher),
                                                    rows[1]).ret,
                               "none",
                               decrypt_employee_pii(KeyOf(g.ret.cipher),
                                                    rows[1]).cipher,
                               g)
            IN answered(get_encryption_service(_encryption_service, environ,
                                               constructions))

\* a handler calls get_encryption_service() and hashes a value with the
\* object it got
ServeHash ==
  /\ phase = "serving"
  /\ requests < MaxRequests
  /\ requests' = requests + 1
  /\ UNCHANGED phase
  /\ \E value \in HashSamples :
       LET answered(g) ==
             IF g.exc # "none"
             THEN /\ Stepped("hash", value, PyNone, g.exc, 0, g)
                  /\ UNCHANGED earlier
             ELSE /\ Stepped("hash", value, hash(value).ret, hash(value).exc,
                             0, g)
                  /\ earlier' = IF op = "hash" /\ exc = "none"
                                THEN [arg |-> arg, res |-> res] ELSE earlier
       IN answered(get_encryption_service(_encryption_service, environ,
                                          constructions))

ServiceNext ==
  \/ StartupEvent
  \/ HealthCheck
  \/ ServeGetEmployee
  \/ ServeHash

ServiceSpec == ServiceInit /\ [][ServiceNext]_vars

(* --------------------- concurrent submit_form requests ----------------- *)
\* submit_form requests in one process
MaxSubmitters == 3
\* the largest max_submissions of the form link (0: none is set)
MaxCap == 2

\* the envelope at rest, its service built
Quiet ==
  /\ key = 1
  /\ op = "init"
  /\ arg = PyNone
  /\ res = PyNone
  /\ exc = "none"
  /\ cipher = 0
  /\ inner = 0
  /\ caller = PyNone
  /\ env = NoEnv
  /\ logged = PyNone
  /\ employees = <<>>
  /\ change_information = <<>>
  /\ audit_logs = <<>>
  /\ form_submissions = <<>>
  /\ form_tokens = <<>>
  /\ Built(KeyString(key))

\* a request whose handler has not started
NotStarted == [pc |-> "idle", token_record |-> PyNone]

SubmitInit ==
  /\ Quiet
  /\ NoLogins
  /\ \E max \in 0..MaxCap,
        type \in {"new_employee_upload", "change_information_upload"} :
       token_row = [submission_count |-> 0, max_submissions |-> max,
                    template_type |-> type]
  /\ submitters = [r \in 1..MaxSubmitters |-> NotStarted]
  /\ accepted = 0

\* if token_record["max_submissions"]:
\*     if token_record["submission_count"] >= token_record["max_submissions"]
CapReached(token_record) ==
  /\ token_record.max_submissions # 0
  /\ token_record.submission_count >= token_record.max_submissions

\* the form_tokens row after
\* update({"submission_count": token_record["submission_count"] + 1})
Counted(row, token_record) ==
  [row EXCEPT !.submission_count = token_record.submission_count + 1]

\* the response of the step of a submit_form request
Answered(e) ==
  /\ op' = "submit_form"
  /\ exc' = e
  /\ UNCHANGED <<key, arg, res, cipher, inner, caller, env, logged, employees,
                 change_information, audit_logs, form_submissions,
                 form_tokens, lifecycle, signing_in>>

\* submit_form from its start to its first await: the token is read and
\* validated; with a change_information_upload form, or when no recipient
\* e-mail is found, the records are inserted and the count is written before
\* await create_audit_log; otherwise the employee is inserted and the handler
\* waits in await notify_edge_function
SubmitBegin(r) ==
  /\ submitters[r].pc = "idle"
  /\ LET token_record == token_row IN
     IF CapReached(token_record)
     THEN /\ submitters' = [submitters EXCEPT ![r] =
                              [pc |-> "rejected", token_record |-> token_record]]
          /\ UNCHANGED <<token_row, accepted>>
          /\ Answered("HTTP403")
     ELSE \E recipient_email \in BOOLEAN :
            IF token_record.template_type = "new_employee_upload"
                 /\ recipient_email
            THEN /\ submitters' = [submitters EXCEPT ![r] =
                                     [pc |-> "notifying",
                                      token_record |-> token_record]]
                 /\ UNCHANGED <<token_row, accepted>>
                 /\ Answered("none")
            ELSE /\ submitters' = [submitters EXCEPT ![r] =
                                     [pc |-> "auditing",
                                      token_record |-> token_record]]
                 /\ accepted' = accepted + 1
                 /\ token_row' = Counted(token_row, token_record)
                 /\ Answered("none")

\* submit_form after await notify_edge_function: the submission is inserted
\* and the count is written from the token_record read at the start
SubmitNotified(r) ==
  /\ submitters[r].pc = "notifying"
  /\ submitters' = [submitters EXCEPT ![r].pc = "auditing"]
  /\ accepted' = accepted + 1
  /\ token_row' = Counted(token_row, submitters[r].token_record)
  /\ Answered("none")

\* submit_form after await create_audit_log: the response
SubmitAudited(r) ==
  /\ submitters[r].pc = "auditing"
  /\ submitters' = [submitters EXCEPT ![r].pc = "done"]
  /\ UNCHANGED <<token_row, accepted>>
  /\ Answered("none")

SubmitNext ==
  \/ \E r \in 1..MaxSubmitters : SubmitBegin(r)
  \/ \E r \in 1..MaxSubmitters : SubmitNotified(r)
  \/ \E r \in 1..MaxSubmitters : SubmitAudited(r)

SubmitSpec == SubmitInit /\ [][SubmitNext]_vars

(* ------------------------------ login lockout -------------------------- *)
MAX_FAILED_ATTEMPTS == 5
\* minutes
LOCKOUT_DURATION == 15
ATTEMPT_WINDOW == 5
\* the last minute of the clock
MaxClock == 20
\* attempt_data without 'locked_until'
NoLock == -1

\* sanitize_email of an address of the form the pattern accepts
sanitize_email(value) == PyStr(py_lower(value.s))

\* check_account_locked that never answers locked
check_account_never_locked(d, email, t) == [locked |-> FALSE, d |-> d]

\* check_account_locked(email) at time t with the dict d: is_locked, and the
\* dict afterwards
check_account_locked(d, email, t) ==
  LET email_lower == py_lower(email.s) IN
  IF email_lower \notin DOMAIN d THEN [locked |-> FALSE, d |-> d]
  ELSE LET attempt_data == d[email_lower] IN
       IF attempt_data.locked_until # NoLock
       THEN IF t < attempt_data.locked_until THEN [locked |-> TRUE, d |-> d]
            ELSE [locked |-> FALSE, d |-> Pop(d, email_lower)]
       ELSE IF t - attempt_data.last_attempt > ATTEMPT_WINDOW
       THEN [locked |-> FALSE, d |-> Pop(d, email_lower)]
       ELSE [locked |-> FALSE, d |-> d]

\* record_failed_login(email) at time t: the dict afterwards
record_failed_login(d, email, t) ==
  LET email_lower == py_lower(email.s) IN
  IF email_lower \notin DOMAIN d
  THEN Put(d, email_lower,
           [attempts |-> 1, last_attempt |-> t, locked_until |-> NoLock])
  ELSE LET attempts == d[email_lower].attempts + 1
       IN Put(d, email_lower,
              [attempts |-> attempts, last_attempt |-> t,
               locked_until |-> IF attempts >= MAX_FAILED_ATTEMPTS
                                THEN t + LOCKOUT_DURATION
                                ELSE d[email_lower].locked_until])

\* record_successful_login(email): the dict afterwards
record_successful_login(d, email) == Pop(d, py_lower(email.s))

\* the spellings of the address the requests log in with
Emails == {Lit(<<"j", "@", "z", ".", "i", "o">>),
           Lit(<<"J", "@", "Z", ".", "i", "o">>)}
\* its key in failed_login_attempts
EmailKey == Chars(<<"j", "@", "z", ".", "i", "o">>)

LoginInit ==
  /\ Quiet
  /\ NoSubmitters
  /\ NoLogins

\* the response of a login request
Responded(email, e) ==
  /\ op' = "login"
  /\ arg' = email
  /\ exc' = e
  /\ UNCHANGED <<key, res, cipher, inner, caller, env, logged, employees,
                 change_information, audit_logs, form_submissions,
                 form_tokens, lifecycle, submitting>>

\* login: the account is checked and a locked one is answered 429; otherwise
\* the credentials are checked and the failure or the success is recorded.
\* The awaits under auth_viewmodel.login call the synchronous Supabase client
\* and never suspend, so no other request of the process runs in between.
Login ==
  /\ UNCHANGED now
  /\ \E credentials \in Emails, success \in BOOLEAN :
       LET email == sanitize_email(credentials)
           checked == check_account_locked(failed_login_attempts, email, now)
           recorded(d) ==
             /\ failed_login_attempts' = d
             /\ fifth' = IF d[EmailKey].attempts = MAX_FAILED_ATTEMPTS
                         THEN now ELSE fifth
       IN IF checked.locked
          THEN /\ failed_login_attempts' = checked.d
               /\ UNCHANGED fifth
               /\ Responded(credentials, "HTTP429")
          ELSE IF success
          THEN /\ failed_login_attempts' =
                    record_successful_login(checked.d, email)
               /\ UNCHANGED fifth
               /\ Responded(credentials, "none")
          ELSE /\ recorded(record_failed_login(checked.d, email, now))
               /\ Responded(credentials, "HTTP401")

\* time passes
Tick ==
  /\ \E minutes \in {1, 5, 10} :
       /\ now + minutes <= MaxClock
       /\ now' = now + minutes
  /\ UNCHANGED <<key, op, arg, res, exc, cipher, inner, caller, env, logged,
                 employees, change_information, audit_logs, form_submissions,
                 form_tokens, lifecycle, submitting, failed_login_attempts,
                 fifth>>

LoginNext ==
  \/ Login
  \/ Tick

LoginSpec == LoginInit /\ [][LoginNext]_vars

(* ------------------------------- claims -------------------------------- *)
IsScalar(v) == v.t \in {"none", "str", "int", "float", "bool"}
\* a value the envelope never produced: no ciphertext anywhere in it
IsLegacy(v) == IsScalar(v) /\ v # PyNone /\ ValueDepth(v) = 0
\* decrypt() takes s for ciphertext
PassesHeuristic(s) == StrLen(s) >= MinCipherLen /\ looks_like_base64(s)
\* s decodes to a token that authenticates under k
ValidCiphertext(k, s) ==
  b64decode(s).ok /\ cipher_decrypt(k, b64decode(s).body).ok

\* C1: for every non-null, non-empty scalar v (string, number, boolean),
\* encrypt(v) returns and decrypt(encrypt(v)) is str(v).
C1_RoundTrip ==
  (op = "encrypt" /\ arg # PyNone /\ arg # PyStr(<<>>))
    => /\ exc = "none"
       /\ decrypt(key, res).exc = "none"
       /\ decrypt(key, res).ret = PyStr(py_str(arg))

\* a number went through encrypt and decrypts to its string form
C1_Witness ==
  /\ op = "encrypt"
  /\ arg = PyInt(55000)
  /\ IsBlob(res)
  /\ decrypt(key, res).ret = Lit(<<"5", "5", "0", "0", "0">>)

C3_OnlyShapedIsCiphertext ==
  (op = "decrypt" /\ arg.t = "str" /\ arg.s # <<>>
     /\ ~(StrLen(arg.s) > Base64MinLen /\ FullMatch(arg.s)))
    => (res = arg /\ cipher = 0 /\ exc = "none")

\* C4: a string that passes the heuristic and is not a valid ciphertext under
\* the current key is returned unchanged by decrypt, which does not raise.
C4_ScalarSoftFailure ==
  (op = "decrypt" /\ arg.t = "str" /\ PassesHeuristic(arg.s)
     /\ ~ValidCiphertext(key, arg.s))
    => (exc = "none" /\ res = arg)

\* a ciphertext written under another key was tried and returned unchanged
C4_Witness ==
  /\ op = "decrypt"
  /\ IsBlob(arg)
  /\ arg.s[1].good
  /\ arg.s[1].key # key
  /\ cipher = 1
  /\ res = arg

\* C5: when document decryption fails (the text decrypt hands back is not
\* JSON: corrupted ciphertext, wrong key, plaintext that is no JSON),
\* decrypt_json returns null and does not raise.
C5_DocumentSoftFailure ==
  (op = "decrypt_json" /\ arg.t = "str" /\ arg.s # <<>>
     /\ ~json_loads(decrypt(key, arg).ret.s).ok)
    => (exc = "none" /\ res = PyNone)

\* C6 as stated: decrypt_json(encrypt_json(d)) = d for every document d.
C6_EveryDocumentRoundTrips ==
  op = "encrypt_json"
    => /\ exc = "none"
       /\ decrypt_json(key, res).exc = "none"
       /\ decrypt_json(key, res).ret = arg

\* C6 amended: decrypt_json(encrypt_json(d)) = d for every document d that is
\* not null, empty or zero (a truthy d); for the others the result is null.
C6_DocumentRoundTrip ==
  op = "encrypt_json"
    => /\ exc = "none"
       /\ decrypt_json(key, res).exc = "none"
       /\ decrypt_json(key, res).ret = (IF Truthy(arg) THEN arg ELSE PyNone)

\* a nested document with a string that needs escaping came back equal
C6_Witness ==
  /\ op = "encrypt_json"
  /\ arg.t = "dict"
  /\ \E f \in DOMAIN arg.d :
       /\ arg.d[f].t = "list"
       /\ Lit(<<"a", "\"", "\\", "\n">>) \in {arg.d[f].items[i] :
                                               i \in 1..Len(arg.d[f].items)}
  /\ IsBlob(res)
  /\ decrypt_json(key, res).ret = arg

\* C7: encrypt(null) and encrypt("") return null without invoking the
\* cipher, and decrypt(null) returns null.
C7_EmptyPassthrough ==
  /\ (op = "encrypt" /\ arg \in {PyNone, PyStr(<<>>)})
       => (res = PyNone /\ cipher = 0 /\ exc = "none")
  /\ (op = "decrypt" /\ arg = PyNone) => (res = PyNone /\ exc = "none")

\* encrypt was called with the empty string
C7_Witness ==
  /\ op = "encrypt"
  /\ arg = PyStr(<<>>)
  /\ res = PyNone
  /\ cipher = 0

\* C8: encrypt_json of a null or empty document, and decrypt_json of a null
\* or empty input, return null without calling encrypt or decrypt.
C8_EmptyDocument ==
  /\ (op = "encrypt_json"
        /\ arg \in {PyNone, PyDict(<<>>), PyList(<<>>), PyStr(<<>>)})
       => (res = PyNone /\ inner = 0 /\ exc = "none")
  /\ (op = "decrypt_json" /\ arg \in {PyNone, PyStr(<<>>)})
       => (res = PyNone /\ inner = 0 /\ exc = "none")

\* encrypt_json was called with the empty object
C8_Witness ==
  /\ op = "encrypt_json"
  /\ arg = PyDict(<<>>)
  /\ res = PyNone
  /\ inner = 0

\* C9 as stated: decrypt_employee_pii is idempotent on any record.
C9_IdempotentOnAnyRecord ==
  op = "decrypt_employee_pii"
    => decrypt_employee_pii(key, res).ret = res

\* no policy field holds the encryption of a ciphertext
SingleLayer(r) ==
  \A f \in DOMAIN r.d \cap PolicyFields : ValueDepth(r.d[f]) <= 1

\* C9 amended: decrypt_employee_pii is idempotent on every record whose
\* policy fields hold at most one layer of encryption (ciphertext of a
\* plaintext, legacy plaintext, values of any type).
C9_IdempotentOnSingleLayer ==
  (op = "decrypt_employee_pii" /\ SingleLayer(arg))
    => /\ exc = "none"
       /\ decrypt_employee_pii(key, res).ret = res

\* a record with a ciphertext field was decrypted, and decrypting the result
\* again changes nothing
C9_Witness ==
  /\ op = "decrypt_employee_pii"
  /\ SingleLayer(arg)
  /\ ni_number \in DOMAIN arg.d
  /\ IsBlob(arg.d[ni_number])
  /\ res.d[ni_number] # arg.d[ni_number]
  /\ decrypt_employee_pii(key, res).ret = res

IsText(v) == v.t = "str" /\ v.s # <<>>

\* C10: when ni_number, pensionable_salary and date_of_birth are non-empty
\* strings, encrypt_employee_pii changes all three into values that pass the
\* ciphertext-shape heuristic, and decrypt_employee_pii of the result gives
\* the three original strings.
C10_PolicyCompleteness ==
  (op = "encrypt_employee_pii"
     /\ PolicyFields \subseteq DOMAIN arg.d
     /\ \A f \in PolicyFields : IsText(arg.d[f]))
    => /\ exc = "none"
       /\ \A f \in PolicyFields :
            /\ res.d[f] # arg.d[f]
            /\ res.d[f].t = "str"
            /\ looks_like_base64(res.d[f].s)
            /\ decrypt_employee_pii(key, res).ret.d[f] = arg.d[f]

\* the scenario record: "AB123456C", "55000", "1990-01-01"
C10_Witness ==
  /\ op = "encrypt_employee_pii"
  /\ PolicyFields \subseteq DOMAIN arg.d
  /\ arg.d[ni_number] = Lit(<<"A", "B", "1", "2", "3", "4", "5", "6", "C">>)
  /\ arg.d[pensionable_salary] = Lit(<<"5", "5", "0", "0", "0">>)
  /\ arg.d[date_of_birth] =
       Lit(<<"1", "9", "9", "0", "-", "0", "1", "-", "0", "1">>)
  /\ \A f \in PolicyFields : IsBlob(res.d[f])
  /\ \A f \in PolicyFields :
       decrypt_employee_pii(key, res).ret.d[f] = arg.d[f]

\* C11 as stated: every policy field present with a non-null value is
\* replaced by encrypt(value); none passes through in plaintext.
C11_EveryNonNullEncrypted ==
  (op = "encrypt_employee_pii" /\ exc = "none")
    => \A f \in PolicyFields \cap DOMAIN arg.d :
         arg.d[f] # PyNone
           => \E iv \in 1..MaxIv : res.d[f] = encrypt(key, iv, arg.d[f]).ret

ChangeFields == {Name.new_name, Name.new_address, Name.new_salary,
                 Name.new_employee_contribution, Name.new_employer_contribution}

\* C13 as stated: every value create_change_information or
\* update_change_information writes to change_information for new_name,
\* new_address, new_salary, new_employee_contribution or
\* new_employer_contribution is null or ciphertext.
C13_ChangeFieldsEncrypted ==
  (op \in {"create_change_information", "update_change_information"}
     /\ change_information # <<>>)
    => \A f \in ChangeFields \cap DOMAIN change_information[1].row.d :
         \/ change_information[1].row.d[f] = PyNone
         \/ IsBlob(change_information[1].row.d[f])

\* the handlers that return employee records
EmployeeReads == {"get_employees", "get_employee", "create_employee",
                  "update_employee", "search_employees",
                  "export_employees_io_template"}
\* the records of the response
Returned ==
  IF res.t = "list" THEN {res.items[i] : i \in 1..Len(res.items)}
  ELSE IF res.t = "dict" THEN {res} ELSE {}
\* the fields of a returned record that come from the three policy fields
PolicyColumns == PolicyFields \cup {Name.NINumber, Name.PensionableSalary, Name.DateofBirth}

\* C14 as stated: no handler that returns employee records returns, in a
\* field that comes from ni_number, pensionable_salary or date_of_birth, a
\* value that is a valid ciphertext under the current key.
C14_ReadsDecrypted ==
  (op \in EmployeeReads /\ exc = "none")
    => \A r \in Returned : \A f \in PolicyColumns \cap DOMAIN r.d :
         ~(r.d[f].t = "str" /\ ValidCiphertext(key, r.d[f].s))

\* the policy fields of d that encrypt_employee_pii hands to encrypt and
\* that encrypt cannot encode
Failing(d) ==
  {f \in PolicyFields \cap DOMAIN d.d :
     Truthy(d.d[f]) /\ ~Encodable(py_str(d.d[f]))}
\* submit_form got past the checks of the token into its new-employee branch
NewEmployeeBranch ==
  /\ op = "submit_form"
  /\ env.token.found
  /\ env.token.is_active
  /\ ~env.token.expired
  /\ ~(env.token.max_submissions # 0
         /\ env.token.submission_count >= env.token.max_submissions)
  /\ env.token.template_type # "change_information_upload"
\* the employee data the call hands to encrypt_employee_pii: for the
\* employee routes the policy fields of the body, for submit_form those
\* mapped from the submission
HandedToEncrypt ==
  IF op = "submit_form"
  THEN PyDict(Put(Put(Put(<<>>,
         ni_number, Get(arg.d, Name.nationalInsuranceNumber)),
         date_of_birth, Get(arg.d, Name.dateOfBirth)),
         pensionable_salary, Get(arg.d, Name.salary)))
  ELSE PyDict([f \in PolicyFields \cap DOMAIN arg.d |-> arg.d[f]])
EmployeeWrites ==
  op \in {"create_employee", "update_employee"} \/ NewEmployeeBranch

\* C15: where encrypt fails it raises and returns nothing; create_employee,
\* update_employee and the new-employee branch of submit_form then answer
\* with an error and write nothing to employees, and a row they do write
\* carries the policy fields as encrypt_employee_pii returned them.
C15_EncryptionFailureAborts ==
  /\ (EmployeeWrites /\ Failing(HandedToEncrypt) # {})
       => /\ \A f \in Failing(HandedToEncrypt) :
               /\ encrypt(key, env.iv, HandedToEncrypt.d[f]).exc = "ValueError"
               /\ encrypt(key, env.iv, HandedToEncrypt.d[f]).ret = PyNone
          /\ encrypt_employee_pii(key, env.iv, HandedToEncrypt).exc = "ValueError"
          /\ exc \in {"HTTP500", "HTTP404"}
          /\ res = PyNone
          /\ employees = <<>>
  /\ (EmployeeWrites /\ employees # <<>>)
       => /\ encrypt_employee_pii(key, env.iv, HandedToEncrypt).exc = "none"
          /\ \A f \in DOMAIN HandedToEncrypt.d :
               employees[1].row.d[f] =
                 encrypt_employee_pii(key, env.iv, HandedToEncrypt).ret.d[f]

\* create_employee with an ni_number that cannot be encoded, the store up:
\* the answer is an error and employees has no row
C15_Witness ==
  /\ op = "create_employee"
  /\ ni_number \in DOMAIN arg.d
  /\ arg.d[ni_number] = Unencodable
  /\ env.db = "ok"
  /\ exc = "HTTP500"
  /\ employees = <<>>

\* the operations of the audit service
AuditOps == {"log_action", "log_employee_create", "log_employee_update",
             "log_employee_delete", "log_company_action", "log_form_action",
             "log_settings_change"}
\* the call stored an audit entry with a details value
StoredDetails == audit_logs # <<>> /\ audit_logs[1].details # PyNone
\* the detail document of the entry stored
StoredDocument == decrypt_json(key, audit_logs[1].details).ret
\* old_data or new_data of the document, if it has it
Part(doc, part) == IF part \in DOMAIN doc.d THEN doc.d[part] ELSE PyDict(<<>>)
HighRiskFree(doc) ==
  \A part \in {Name.old_data, Name.new_data} :
    Part(doc, part).t = "dict"
      => DOMAIN Part(doc, part).d \cap PolicyFields = {}

\* C16 as stated: whatever old_data/new_data a call of log_action or of one
\* of its wrappers is given, the detail document stored has no ni_number,
\* date_of_birth or pensionable_salary key inside old_data or new_data.
C16_LogActionStrips ==
  (op \in AuditOps /\ StoredDetails) => HighRiskFree(StoredDocument)

\* every field of data outside the policy is in that part of the document
Carried(doc, part, data) ==
  \A f \in DOMAIN data.d \ PolicyFields :
    /\ part \in DOMAIN doc.d
    /\ f \in DOMAIN doc.d[part].d
    /\ doc.d[part].d[f] = data.d[f]

\* C17: the entry log_employee_create, log_employee_update and
\* log_employee_delete store has ciphertext details; the decrypted document
\* holds every field of the employee data outside the three policy fields
\* with its value and none of the three; and the entry is the one stored
\* (same iv) for the data without its three policy fields.
C17_EmployeeAuditRedaction ==
  (op \in {"log_employee_create", "log_employee_update", "log_employee_delete"}
     /\ audit_logs # <<>>)
    => /\ IsBlob(audit_logs[1].details)
       /\ ValidCiphertext(key, audit_logs[1].details.s)
       /\ decrypt_json(key, audit_logs[1].details).exc = "none"
       /\ HighRiskFree(StoredDocument)
       /\ op = "log_employee_create"
            => /\ Carried(StoredDocument, Name.new_data, arg.b)
               /\ audit_logs =
                    log_employee_create(key, env, arg.a, Sanitized(arg.b)).rows
       /\ op = "log_employee_update"
            => /\ Carried(StoredDocument, Name.old_data, arg.b)
               /\ Carried(StoredDocument, Name.new_data, arg.c)
               /\ audit_logs =
                    log_employee_update(key, env, arg.a, Sanitized(arg.b),
                                        Sanitized(arg.c)).rows
       /\ op = "log_employee_delete"
            => /\ Carried(StoredDocument, Name.old_data, arg.b)
               /\ audit_logs =
                    log_employee_delete(key, env, arg.a, Sanitized(arg.b)).rows

\* the redaction scenario: old_data = {"ni_number": "AB123456C",
\* "full_name": "Jane"} was logged; full_name is in the decrypted document
\* and ni_number is not
C17_Witness ==
  /\ op = "log_employee_update"
  /\ arg.b = JaneWithNi
  /\ audit_logs # <<>>
  /\ IsBlob(audit_logs[1].details)
  /\ StoredDocument.d[Name.old_data].d[full_name] = Jane
  /\ ni_number \notin DOMAIN StoredDocument.d[Name.old_data].d

\* the employee handlers that call the audit service
AuditedHandlers == {"create_employee", "update_employee", "delete_employee",
                    "bulk_delete_employees", "export_employees_io_template"}
\* what the handler of this state gives for its arguments in e
HandlerIn(e) ==
  CASE op = "create_employee" -> create_employee(key, e, arg)
    [] op = "update_employee" -> update_employee(key, e, Given.employee_id, arg)
    [] op = "delete_employee" -> delete_employee(key, e, Given.employee_id)
    [] op = "bulk_delete_employees" -> bulk_delete_employees(key, e, arg)
    [] op = "export_employees_io_template" ->
         export_employees_io_template(key, e, arg.items)
\* the details log_action is to encrypt cannot be encoded
DetailsFail ==
  op = "log_action"
    /\ encrypt_json(key, env.iv,
                    Details(arg.a, arg.b, arg.c, PyNone)).exc # "none"

\* C18: when the insert into audit_logs or the encryption of the details
\* fails, log_action returns False and raises nothing; an employee handler
\* whose audit call failed answers as it does when the insert succeeds, and
\* the write it made to employees stands.
C18_AuditBestEffort ==
  /\ (op \in AuditOps /\ (~env.audit \/ DetailsFail))
       => exc = "none" /\ logged = PyBool(FALSE) /\ audit_logs = <<>>
  /\ (op \in AuditedHandlers /\ ~env.audit)
       => /\ exc = HandlerIn([env EXCEPT !.audit = TRUE]).exc
          /\ res = HandlerIn([env EXCEPT !.audit = TRUE]).ret
          /\ employees = HandlerIn([env EXCEPT !.audit = TRUE]).w.employees
          /\ audit_logs = <<>>
  /\ (op \in AuditedHandlers /\ logged = PyBool(FALSE))
       => /\ exc = "none"
          /\ audit_logs = <<>>
          /\ op \in {"create_employee", "update_employee"}
               => /\ employees # <<>>
                  /\ res = decrypt_employee_pii(key, employees[1].row).ret

\* create_employee stored its row, the insert into audit_logs failed, and
\* the answer is the employee
C18_Witness ==
  /\ op = "create_employee"
  /\ ~env.audit
  /\ logged = PyBool(FALSE)
  /\ exc = "none"
  /\ audit_logs = <<>>
  /\ employees # <<>>
  /\ res.t = "dict"
  /\ res.d[Name.id] = Given.employee_id

\* C19 as stated: every row any code path inserts into audit_logs has
\* details that are null or ciphertext.
C19_AuditDetailsEncrypted ==
  \A i \in 1..Len(audit_logs) :
    audit_logs[i].details = PyNone \/ IsBlob(audit_logs[i].details)

\* C20 as stated: whatever the details of the stored entries, get_audit_logs
\* does not fail when the store answers; without a search term it lists
\* every entry, and an entry whose details do not decrypt has details null.
C20_ListingDegradesPerEntry ==
  (op = "get_audit_logs" /\ env.db = "ok")
    => /\ exc = "none"
       /\ env.search = PyNone
            => /\ Len(res.items) = Len(arg.items)
               /\ \A i \in 1..Len(arg.items) :
                    (Truthy(arg.items[i].details)
                       /\ decrypt_json(key, arg.items[i].details).exc # "none")
                      => res.items[i].details = PyNone

\* C25: decrypt raises nothing and returns a str or None for every input;
\* None only for None and the empty string; an input that is no string
\* (a number or a boolean read from a legacy column) comes back as str(input).
C25_DecryptGivesStrOrNone ==
  op = "decrypt"
    => /\ exc = "none"
       /\ res.t \in {"none", "str"}
       /\ res = PyNone <=> arg \in {PyNone, PyStr(<<>>)}
       /\ arg.t \notin {"none", "str"} => res = PyStr(py_str(arg))

\* a number and a boolean came back in string form
C25_Witness ==
  /\ op = "decrypt"
  /\ \/ arg = PyInt(55000) /\ res = Lit(<<"5", "5", "0", "0", "0">>)
     \/ arg = PyBool(FALSE) /\ res = Lit(<<"F", "a", "l", "s", "e">>)

\* C28: every successful write to a change request (here: create and update)
\* is followed by the insertion of an entry into audit_logs.
C28_ChangeWriteIsAudited ==
  (/\ op \in {"create_change_information", "update_change_information"}
   /\ exc = "none"
   /\ change_information # <<>>)
    => audit_logs # <<>>

\* the collection reads, and the rows a read returned
CollectionReads == {"get_employees", "export_employees_io_template",
                    "list_submissions", "get_change_information"}
ItemsReturned == IF op = "list_submissions" THEN res.d[Name.data].items
                 ELSE res.items
\* the stored value v cannot be decrypted under the key of the process
Undecryptable(v) == IsBlob(v) /\ ~ValidCiphertext(key, v.s)
\* what a read gives for an encrypted field stored as v: the plaintext of a
\* valid ciphertext, v itself when it cannot be decrypted
FieldReadAs(v, shown) ==
  /\ IsBlob(v) /\ ValidCiphertext(key, v.s) => shown = PyStr(v.s[1].pt)
  /\ Undecryptable(v) => shown = v

\* C21: when the store answers, each of the four collection reads returns
\* without error and gives one item per stored row, also when a field or a
\* document of a row cannot be decrypted; such a field comes back as it is
\* stored (a document as {"error": "Failed to decrypt"}), a field with a
\* valid ciphertext comes back as plaintext, and the other fields of the row
\* come back unchanged.
C21_ReadsSurviveUndecryptableRows ==
  (op \in CollectionReads /\ env.db = "ok")
    => /\ exc = "none"
       /\ Len(ItemsReturned) = Len(arg.items)
       /\ op = "get_employees" =>
            \A i \in 1..Len(arg.items) :
              /\ DOMAIN ItemsReturned[i].d = DOMAIN arg.items[i].d
              /\ \A f \in DOMAIN arg.items[i].d :
                   IF f \in PolicyFields
                   THEN FieldReadAs(arg.items[i].d[f], ItemsReturned[i].d[f])
                   ELSE ItemsReturned[i].d[f] = arg.items[i].d[f]
       /\ op = "get_change_information" =>
            \A i \in 1..Len(arg.items) :
              \A f \in DOMAIN arg.items[i].d \ {Name.companies} :
                /\ f \in DOMAIN ItemsReturned[i].d
                /\ IF \E j \in 1..Len(ChangeCiphertexts) : ChangeCiphertexts[j] = f
                   THEN FieldReadAs(arg.items[i].d[f], ItemsReturned[i].d[f])
                   ELSE ItemsReturned[i].d[f] = arg.items[i].d[f]
       /\ op = "list_submissions" =>
            \A i \in 1..Len(arg.items) :
              /\ ItemsReturned[i].d[Name.id] = arg.items[i].d[Name.id]
              /\ Undecryptable(arg.items[i].d[Name.submission_data])
                   => ItemsReturned[i].d[Name.submission_data]
                        = PyDict(Put(<<>>, Name.error, Word.Failed_to_decrypt))
       /\ op = "export_employees_io_template" =>
            \A i \in 1..Len(arg.items) :
              Undecryptable(Get(arg.items[i].d, ni_number))
                => ItemsReturned[i].d[Name.NINumber] = arg.items[i].d[ni_number]

\* a read returned two rows although a field or document of the second one
\* could not be decrypted
C21_Witness ==
  /\ op \in {"list_submissions", "get_change_information", "get_employees"}
  /\ exc = "none"
  /\ Len(arg.items) = 2
  /\ Len(ItemsReturned) = 2
  /\ \/ /\ op = "list_submissions"
        /\ Undecryptable(arg.items[2].d[Name.submission_data])
     \/ /\ op = "get_change_information"
        /\ Undecryptable(arg.items[2].d[Name.new_name])
     \/ /\ op = "get_employees"
        /\ \E f \in PolicyFields \cap DOMAIN arg.items[2].d :
             Undecryptable(arg.items[2].d[f])

\* the stored value v is one encryption, under the key of the process, of a
\* plaintext that is no ciphertext itself
OneLayer(v) == IsBlob(v) /\ ValidCiphertext(key, v.s) /\ Depth(v.s) = 1
\* the last call was an update with a record exactly as a read returned it,
\* read from a row whose policy fields were one layer each
ResubmittedIntact ==
  /\ op = "update_employee"
  /\ exc = "none"
  /\ "read" \in DOMAIN env
  /\ \A f \in PolicyFields \cap DOMAIN env.existing.d :
       Truthy(env.existing.d[f]) => OneLayer(env.existing.d[f])

\* C27: after a client re-submits to update_employee a record exactly as a
\* read (get_employee, get_employees, search_employees) returned it, each
\* policy field of the stored row is still one encryption of the plaintext
\* it held before, and get_employee gives that plaintext.
C27_SingleLayerAfterResubmission ==
  ResubmittedIntact
    => \A f \in PolicyFields \cap DOMAIN env.existing.d :
         Truthy(env.existing.d[f])
           => /\ OneLayer(employees[1].row.d[f])
              /\ employees[1].row.d[f].s[1].pt = env.existing.d[f].s[1].pt
              /\ get_employee(key, env, Given.employee_id,
                              <<employees[1].row>>).ret.d[f]
                   = PyStr(env.existing.d[f].s[1].pt)

\* length of a SHA-256 digest in hexadecimal
DigestLen == 64
HexDigits == {"0", "1", "2", "3", "4", "5", "6", "7", "8", "9",
              "a", "b", "c", "d", "e", "f"}
IsDigest(v) ==
  /\ v.t = "str"
  /\ Len(v.s) = DigestLen
  /\ \A i \in 1..Len(v.s) : v.s[i].k = "ch" /\ v.s[i].c \in HexDigits
\* the last step was a call of hash on a service that was obtained
Hashed == op = "hash" /\ env.raised = "none"

ValidKeys == {KeyString(k) : k \in Keys}
\* the last step was a handler that called get_encryption_service()
CalledService == op \in {"get_employee", "hash"} /\ env.called

\* C23: with ENCRYPTION_KEY not set, empty or malformed, every call that
\* constructs the service raises ValueError and leaves no instance; an
\* instance that exists holds a valid key, and the cipher is invoked only
\* through such an instance.
C23_ConstructionFailsFast ==
  /\ (CalledService /\ environ \notin ValidKeys)
       => /\ env.raised = "ValueError"
          /\ env.got = PyNone
          /\ cipher = 0
  /\ environ \notin ValidKeys => _encryption_service = PyNone
  /\ _encryption_service # PyNone
       => /\ _encryption_service.cipher \in ValidKeys
          /\ _encryption_service.cipher = environ
  /\ cipher > 0 => _encryption_service # PyNone

\* a handler asked for the service while the key was malformed, not set or
\* empty, and got ValueError
C23_Witness ==
  /\ CalledService
  /\ environ \in {PyNone, PyStr(<<>>), PyStr(<<Run("A", 44)>>)}
  /\ env.raised = "ValueError"
  /\ _encryption_service = PyNone

\* C24: with ENCRYPTION_KEY not set or malformed the process does not get
\* past startup: it never serves and no request handler runs.
C24_NoServingWithoutKey ==
  environ \notin ValidKeys => (phase = "loaded" /\ requests = 0)

\* C26: once the singleton is set, no step changes it, reads the key or
\* builds an object, and every call of get_encryption_service returns it;
\* while it is not set, every call reads the key, and a call that raises
\* leaves it unset.
C26_ConstructOnce ==
  [][/\ _encryption_service # PyNone
          => /\ _encryption_service' = _encryption_service
             /\ getenv_calls' = getenv_calls
             /\ constructions' = constructions
             /\ env'.called => (env'.raised = "none"
                                  /\ env'.got = _encryption_service)
     /\ (_encryption_service = PyNone /\ env'.called)
          => /\ getenv_calls' = getenv_calls + 1
             /\ env'.raised # "none" => _encryption_service' = PyNone
             /\ env'.raised = "none" => (/\ env'.got # PyNone
                                          /\ _encryption_service' = env'.got)
    ]_vars

\* a second handler got the object the first one had built
C26_Witness ==
  /\ Hashed
  /\ earlier # PyNone
  /\ env.called
  /\ env.got = _encryption_service
  /\ env.got # PyNone
  /\ getenv_calls = 1
  /\ constructions = 1

\* C29: with max_submissions set, at most that many submissions are accepted
\* under every interleaving of the requests, and whenever no request is
\* between its read of the token and its write of the count, the stored
\* submission_count is the number of accepted submissions.
C29_CapUnderConcurrency ==
  token_row.max_submissions # 0
    => /\ accepted <= token_row.max_submissions
       /\ (\A r \in 1..MaxSubmitters : submitters[r].pc # "notifying")
            => token_row.submission_count = accepted

\* C30: from the fifth failure until 15 minutes after it the entry of the
\* e-mail stays as the fifth failure left it (five attempts, locked until 15
\* minutes after that failure), so that every login for the e-mail, in any
\* spelling, is rejected by check_account_locked and no attempt extends the
\* lock or changes the counter; a lock is only ever the one the fifth failure
\* set, an entry without a lock counts fewer than five failures, and after a
\* successful login the e-mail has no entry.
C30_LockedForFifteenMinutes ==
  /\ (fifth >= 0 /\ now < fifth + LOCKOUT_DURATION)
       => /\ EmailKey \in DOMAIN failed_login_attempts
          /\ failed_login_attempts[EmailKey].attempts = MAX_FAILED_ATTEMPTS
          /\ failed_login_attempts[EmailKey].locked_until
               = fifth + LOCKOUT_DURATION
          /\ \A credentials \in Emails :
               check_account_locked(failed_login_attempts,
                                    sanitize_email(credentials), now).locked
  /\ EmailKey \in DOMAIN failed_login_attempts
       => IF failed_login_attempts[EmailKey].locked_until = NoLock
          THEN failed_login_attempts[EmailKey].attempts < MAX_FAILED_ATTEMPTS
          ELSE /\ failed_login_attempts[EmailKey].attempts = MAX_FAILED_ATTEMPTS
               /\ failed_login_attempts[EmailKey].locked_until
                    = fifth + LOCKOUT_DURATION
  /\ (op = "login" /\ exc = "none")
       => EmailKey \notin DOMAIN failed_login_attempts

\* a login in the other spelling was answered 429 while the lock held
C30_Witness ==
  /\ fifth >= 0
  /\ fifth < now
  /\ now < fifth + LOCKOUT_DURATION
  /\ op = "login"
  /\ exc = "HTTP429"
  /\ arg # sanitize_email(arg)

====
